---- MODULE Spec2Model ----
(***************************************************************************)
(* Model of the structural hashing engine of aiida-core,                   *)
(* src/aiida/common/hashing.py: make_hash, the singledispatch function     *)
(* _make_hash with its registered encoders, _single_digest and             *)
(* float_to_text.                                                          *)
(*                                                                         *)
(* Python values are records whose field t is the Python type.  Unordered  *)
(* containers (set, frozenset, dict) and folder listings carry the order   *)
(* in which the interpreter iterates over them: that order is not part of  *)
(* the value's content (two dicts with the same entries are equal), but    *)
(* the code observes it.                                                   *)
(*                                                                         *)
(* blake2b is modelled as an ideal hash: a digest is identified with what  *)
(* it was computed from (personalisation and data), so two digests are     *)
(* equal exactly when their inputs are, and the byte order of digests      *)
(* is a fixed total order unrelated to the order of the values hashed.     *)
(***************************************************************************)
EXTENDS Integers, Sequences, FiniteSets, TLC

VARIABLES
    object_to_hash,   \* make_hash's argument
    kwargs,           \* make_hash's keyword arguments
    pc,               \* position of the call inside make_hash
    hashes,           \* the local `hashes`: the list _make_hash returned
    final_hash,       \* the accumulator: the blocks fed to it so far
    fed,              \* how many elements of `hashes` the loop has fed
    result            \* what the call returned (the hexdigest), or NoResult

vars == <<object_to_hash, kwargs, pc, hashes, final_hash, fed, result>>

(***************************************************************************)
(* Bounds of the model.                                                    *)
(***************************************************************************)
\* Largest number of items of a container (list, set, mapping) drawn as input.
MaxLen == 2
\* Number of calls of make_hash that run interleaved.
NumCalls == 2

(***************************************************************************)
(* Program constants.                                                      *)
(***************************************************************************)
\* aiida.common.constants.AIIDA_FLOAT_PRECISION, imported at hashing.py:43.
AIIDA_FLOAT_PRECISION == 14

(***************************************************************************)
(* Small helpers on sequences.                                             *)
(***************************************************************************)
RECURSIVE Flatten(_)
\* itertools.chain.from_iterable over a sequence of sequences.
Flatten(ss) == IF ss = <<>> THEN <<>> ELSE Head(ss) \o Flatten(Tail(ss))

Range(s) == {s[i] : i \in DOMAIN s}

(***************************************************************************)
(* Text and bytes.  A text is a sequence of code points, a byte string a   *)
(* sequence of bytes (0..255).                                             *)
(***************************************************************************)
\* val.encode('utf-8') for one code point (code points below 2^16).
EncodeCodePoint(cp) ==
    IF cp < 128 THEN <<cp>>
    ELSE IF cp < 2048 THEN <<192 + (cp \div 64), 128 + (cp % 64)>>
    ELSE <<224 + (cp \div 4096), 128 + ((cp \div 64) % 64), 128 + (cp % 64)>>

\* val.encode('utf-8')
encode_utf8(text) == Flatten([i \in DOMAIN text |-> EncodeCodePoint(text[i])])

\* The ASCII characters the number formats write.
ChrMinus == 45
ChrPlus == 43
ChrDot == 46
ChrBang == 33
ChrE == 101
ChrZero == 48

DigitChars(ds) == [i \in DOMAIN ds |-> ChrZero + ds[i]]

\* The decimal digits of a natural number, most significant first.
RECURSIVE NatDigits(_)
NatDigits(n) == IF n < 10 THEN <<n>> ELSE Append(NatDigits(n \div 10), n % 10)

\* u"{}".format(val) for an integer.
IntToText(n) ==
    IF n < 0 THEN <<ChrMinus>> \o DigitChars(NatDigits(0 - n))
    ELSE DigitChars(NatDigits(n))

(***************************************************************************)
(* Reals.  A float is the record [neg, digits, exp]: the decimal           *)
(* expansion d1.d2d3... * 10^exp of its value, d1 # 0, no trailing zero;   *)
(* zero has no digits.                                                     *)
(***************************************************************************)
RECURSIVE StripZeros(_)
StripZeros(ds) ==
    IF ds # <<>> /\ ds[Len(ds)] = 0 THEN StripZeros(SubSeq(ds, 1, Len(ds) - 1))
    ELSE ds

Zeros(n) == [i \in 1..n |-> 0]

\* ds + 1 in the last place; the carry out of the first place is returned
\* as a leading 1 (the result is then one digit longer).
RECURSIVE Increment(_)
Increment(ds) ==
    IF ds = <<>> THEN <<1>>
    ELSE IF ds[Len(ds)] < 9 THEN [ds EXCEPT ![Len(ds)] = @ + 1]
    ELSE Append(Increment(SubSeq(ds, 1, Len(ds) - 1)), 0)

\* The value rounded to sig significant digits (ties to even), as the pair
\* <<digits, exp>> with trailing zeros removed.
RoundSig(digits, exp, sig) ==
    IF Len(digits) <= sig THEN <<digits, exp>>
    ELSE LET head == SubSeq(digits, 1, sig)
             rest == SubSeq(digits, sig + 1, Len(digits))
             more == \E i \in 2..Len(rest) : rest[i] # 0
             up   == \/ rest[1] > 5
                     \/ rest[1] = 5 /\ (more \/ head[sig] % 2 = 1)
             inc  == IF up THEN Increment(head) ELSE head
         IN  IF Len(inc) > sig
             THEN <<StripZeros(SubSeq(inc, 1, sig)), exp + 1>>
             ELSE <<StripZeros(inc), exp>>

\* The exponent of the scientific notation: sign and at least two digits.
ExponentText(e) ==
    LET a  == IF e < 0 THEN 0 - e ELSE e
        ds == IF a < 10 THEN <<0, a>> ELSE NatDigits(a)
    IN  <<ChrE, IF e < 0 THEN ChrMinus ELSE ChrPlus>> \o DigitChars(ds)

\* u'{:.<sig>g}'.format(value): sig significant digits, fixed notation when
\* -4 <= exponent < sig and scientific otherwise, trailing zeros removed.
float_to_text(value, sig) ==
    LET p    == IF sig = 0 THEN 1 ELSE sig
        sign == IF value.neg THEN <<ChrMinus>> ELSE <<>>
    IN  IF value.digits = <<>> THEN sign \o <<ChrZero>>
        ELSE
        LET r  == RoundSig(value.digits, value.exp, p)
            ds == r[1]
            x  == r[2]
            n  == Len(ds)
        IN  IF -4 <= x /\ x < p
            THEN IF x < 0
                 THEN sign \o <<ChrZero, ChrDot>> \o DigitChars(Zeros(0 - x - 1) \o ds)
                 ELSE IF n <= x + 1
                 THEN sign \o DigitChars(ds \o Zeros(x + 1 - n))
                 ELSE sign \o DigitChars(SubSeq(ds, 1, x + 1)) \o <<ChrDot>>
                           \o DigitChars(SubSeq(ds, x + 2, n))
            ELSE sign \o DigitChars(<<ds[1]>>)
                      \o (IF n > 1 THEN <<ChrDot>> \o DigitChars(SubSeq(ds, 2, n)) ELSE <<>>)
                      \o ExponentText(x)

(***************************************************************************)
(* Digests.                                                                *)
(***************************************************************************)
BLAKE2B_OPTIONS == [fanout |-> 0, depth |-> 2, digest_size |-> 32, inner_size |-> 64]

\* _single_digest with the personalisation left out of the hash.
_single_digest_untagged(obj_type, obj_bytes) ==
    [person |-> "", data |-> obj_bytes, last_node |-> FALSE]

\* blake2b(obj_bytes, person=obj_type, node_depth=0, **BLAKE2B_OPTIONS).digest()
_single_digest(obj_type, obj_bytes) ==
    [person |-> obj_type, data |-> obj_bytes, last_node |-> FALSE]

_END_DIGEST == _single_digest(")", <<>>)

\* blake2b(node_depth=0, last_node=True, **BLAKE2B_OPTIONS).digest()
EmptyLeafDigest == [person |-> "", data |-> <<>>, last_node |-> TRUE]

\* The tags, in the order in which the encoders are registered.
Tags == <<"str", "list(", "set(", "dict(", "odict(", "float", "complex", "int",
          "bool", "none", "datetime", "uuid", "folder", "fname", "fcontent",
          "dir(", ")", "">>

TagCode(tag) == CHOOSE i \in DOMAIN Tags : Tags[i] = tag

RECURSIVE SumSeq(_)
SumSeq(s) == IF s = <<>> THEN 0 ELSE Head(s) + SumSeq(Tail(s))

\* a < b for two sequences of numbers, as Python compares bytes and text.
RECURSIVE SeqLess(_, _)
SeqLess(a, b) ==
    IF b = <<>> THEN FALSE
    ELSE IF a = <<>> THEN TRUE
    ELSE IF Head(a) # Head(b) THEN Head(a) < Head(b)
    ELSE SeqLess(Tail(a), Tail(b))

\* The place of a digest in the byte order of digests: a fixed mixing of
\* what was hashed, so that the order of two digests says nothing about
\* the order of the values.
DigestMix(d) == (TagCode(d.person) * 37 + SumSeq(d.data) * 11 + Len(d.data) * 5) % 17

\* a < b for two digests (bytes objects).
DigestLess(a, b) ==
    IF DigestMix(a) # DigestMix(b) THEN DigestMix(a) < DigestMix(b)
    ELSE IF a.person # b.person THEN TagCode(a.person) < TagCode(b.person)
    ELSE SeqLess(a.data, b.data)

\* a < b for two lists of digests, as Python compares lists.
RECURSIVE ListLess(_, _)
ListLess(a, b) ==
    IF b = <<>> THEN FALSE
    ELSE IF a = <<>> THEN TRUE
    ELSE IF Head(a) # Head(b) THEN DigestLess(Head(a), Head(b))
    ELSE ListLess(Tail(a), Tail(b))

\* sorted(pairs, key=itemgetter(0)) for pairs whose first component is a
\* list of digests: a stable sort, equal keys keep the order they came in.
RECURSIVE SortedByKey(_)
SortedByKey(pairs) ==
    IF pairs = <<>> THEN <<>>
    ELSE LET n    == Len(pairs)
             done == SortedByKey(SubSeq(pairs, 1, n - 1))
             p    == pairs[n]
             k    == Cardinality({i \in DOMAIN done : ~ListLess(p[1], done[i][1])})
         IN  SubSeq(done, 1, k) \o <<p>> \o SubSeq(done, k + 1, Len(done))

\* sorted(lists) for lists of digests.
SortedLists(lists) ==
    LET s == SortedByKey([i \in DOMAIN lists |-> <<lists[i], i>>])
    IN  [i \in DOMAIN s |-> s[i][1]]

\* sorted(entries, key=itemgetter(0)) for directory entries (name, isfile);
\* the names of one directory are distinct.
RECURSIVE SortedByName(_)
SortedByName(entries) ==
    IF entries = <<>> THEN <<>>
    ELSE LET n    == Len(entries)
             done == SortedByName(SubSeq(entries, 1, n - 1))
             e    == entries[n]
             k    == Cardinality({i \in DOMAIN done : ~SeqLess(e.name, done[i].name)})
         IN  SubSeq(done, 1, k) \o <<e>> \o SubSeq(done, k + 1, Len(done))

(***************************************************************************)
(* Keyword arguments: a function from the names given to their values.     *)
(***************************************************************************)
NoKwargs == <<>>

\* kwargs.get(name, default)
KwGet(kw, name, default) == IF name \in DOMAIN kw THEN kw[name] ELSE default

(***************************************************************************)
(* The outcome of _make_hash: the list of digests, or the exception        *)
(* raised.                                                                 *)
(***************************************************************************)
Returned(digests) == [exc |-> "", digests |-> digests]
Raised(exc) == [exc |-> exc, digests |-> <<>>]

\* The outcomes rs of evaluations made one after the other: the first
\* exception propagates, otherwise the lists are chained.
Chain(rs) ==
    IF \E i \in DOMAIN rs : rs[i].exc # ""
    THEN Raised(rs[CHOOSE i \in DOMAIN rs :
                      /\ rs[i].exc # ""
                      /\ \A j \in 1..(i - 1) : rs[j].exc = ""].exc)
    ELSE Returned(Flatten([i \in DOMAIN rs |-> rs[i].digests]))

\* [open] + <the outcome r> + [_END_DIGEST]
Bracket(open, r) ==
    IF r.exc # "" THEN r
    ELSE Returned(<<_single_digest(open, <<>>)>> \o r.digests \o <<_END_DIGEST>>)

(***************************************************************************)
(* _make_hash: the singledispatch function and its registered encoders.    *)
(***************************************************************************)
RECURSIVE _make_hash(_, _)

\* @_make_hash.register(six.binary_type)
hash_binary(bytes_obj, kw) == Returned(<<_single_digest("str", bytes_obj.bytes)>>)

\* The text encoder hashing the code points instead of their encoding.
hash_text_raw(val, kw) == Returned(<<_single_digest("str", val.text)>>)

\* @_make_hash.register(six.text_type)
hash_text(val, kw) == Returned(<<_single_digest("str", encode_utf8(val.text))>>)

\* The sequence encoder sorting its elements' digests as the set encoder does.
hash_sequence_sorted(sequence_obj, kw) ==
    LET rs == [i \in DOMAIN sequence_obj.items |-> _make_hash(sequence_obj.items[i], kw)]
    IN  IF \E i \in DOMAIN rs : rs[i].exc # "" THEN Chain(rs)
        ELSE Bracket("list(",
                 Returned(Flatten(SortedLists([i \in DOMAIN rs |-> rs[i].digests]))))

\* The sequence encoder without its brackets: the elements' digests alone.
hash_sequence_unbracketed(sequence_obj, kw) ==
    Chain([i \in DOMAIN sequence_obj.items |-> _make_hash(sequence_obj.items[i], kw)])

\* @_make_hash.register(abc.Sequence)
hash_sequence(sequence_obj, kw) ==
    Bracket("list(", Chain([i \in DOMAIN sequence_obj.items |->
                               _make_hash(sequence_obj.items[i], kw)]))

\* The set encoder without the sort: the digests in iteration order.
hash_set_unsorted(set_obj, kw) ==
    Bracket("set(", Chain([i \in DOMAIN set_obj.items |->
                              _make_hash(set_obj.items[i], kw)]))

\* @_make_hash.register(abc.Set)
hash_set(set_obj, kw) ==
    LET rs == [i \in DOMAIN set_obj.items |-> _make_hash(set_obj.items[i], kw)]
    IN  IF \E i \in DOMAIN rs : rs[i].exc # "" THEN Chain(rs)
        ELSE Bracket("set(",
                 Returned(Flatten(SortedLists([i \in DOMAIN rs |-> rs[i].digests]))))

\* The mapping encoder without the close marker.
hash_mapping_unclosed(mapping, kw) ==
    LET items == mapping.entries
        ks == [i \in DOMAIN items |-> _make_hash(items[i][1], kw)]
    IN  IF \E i \in DOMAIN ks : ks[i].exc # "" THEN Chain(ks)
        ELSE LET sorted == SortedByKey([i \in DOMAIN items |->
                                           <<ks[i].digests, items[i][2]>>])
                 vs == [j \in DOMAIN sorted |-> _make_hash(sorted[j][2], kw)]
             IN  IF \E j \in DOMAIN vs : vs[j].exc # "" THEN Chain(vs)
                 ELSE Returned(<<_single_digest("dict(", <<>>)>>
                               \o Flatten([j \in DOMAIN sorted |->
                                              sorted[j][1] \o vs[j].digests]))

\* The mapping encoder sorting the key digests on their own: the values
\* follow in iteration order.
hash_mapping_keys_sorted_alone(mapping, kw) ==
    LET items == mapping.entries
        ks == [i \in DOMAIN items |-> _make_hash(items[i][1], kw)]
        vs == [i \in DOMAIN items |-> _make_hash(items[i][2], kw)]
    IN  IF \E i \in DOMAIN ks : ks[i].exc # "" THEN Chain(ks)
        ELSE IF \E i \in DOMAIN vs : vs[i].exc # "" THEN Chain(vs)
        ELSE LET sorted == SortedLists([i \in DOMAIN ks |-> ks[i].digests])
             IN  Bracket("dict(",
                     Returned(Flatten([i \in DOMAIN items |->
                                          sorted[i] \o vs[i].digests])))

\* @_make_hash.register(abc.Mapping)
hash_mapping(mapping, kw) ==
    LET items == mapping.entries
        \* hashed_key_mapping(): the keys are hashed in iteration order
        ks == [i \in DOMAIN items |-> _make_hash(items[i][1], kw)]
    IN  IF \E i \in DOMAIN ks : ks[i].exc # "" THEN Chain(ks)
        ELSE LET sorted == SortedByKey([i \in DOMAIN items |->
                                           <<ks[i].digests, items[i][2]>>])
                 vs == [j \in DOMAIN sorted |-> _make_hash(sorted[j][2], kw)]
             IN  IF \E j \in DOMAIN vs : vs[j].exc # "" THEN Chain(vs)
                 ELSE Bracket("dict(",
                          Returned(Flatten([j \in DOMAIN sorted |->
                                               sorted[j][1] \o vs[j].digests])))

\* No encoder registered for OrderedDict: dispatch falls back to abc.Mapping.
hash_odict_as_mapping(mapping, kw) == hash_mapping(mapping, kw)

\* @_make_hash.register(OrderedDict)
hash_odict(mapping, kw) ==
    IF KwGet(kw, "odict_as_unordered", FALSE)
    THEN \* _make_hash.registry[abc.Mapping](mapping): called without kwargs
         hash_mapping(mapping, NoKwargs)
    ELSE Bracket("odict(",
             Chain([i \in 1..(2 * Len(mapping.entries)) |->
                       _make_hash(mapping.entries[(i + 1) \div 2][2 - (i % 2)], kw)]))

\* The real encoder taking the precision from a float_precision keyword.
hash_real_option(val, kw) ==
    Returned(<<_single_digest("float",
                 encode_utf8(float_to_text(val, KwGet(kw, "float_precision",
                                                      AIIDA_FLOAT_PRECISION))))>>)

\* @_make_hash.register(numbers.Real)
hash_real(val, kw) ==
    Returned(<<_single_digest("float", encode_utf8(float_to_text(val, AIIDA_FLOAT_PRECISION)))>>)

\* The complex encoder writing the two renderings with nothing between.
hash_complex_undelimited(val, kw) ==
    Returned(<<_single_digest("complex",
                 encode_utf8(float_to_text(val.real, AIIDA_FLOAT_PRECISION)
                             \o float_to_text(val.imag, AIIDA_FLOAT_PRECISION)))>>)

\* @_make_hash.register(numbers.Complex)
hash_complex(val, kw) ==
    Returned(<<_single_digest("complex",
                 encode_utf8(float_to_text(val.real, AIIDA_FLOAT_PRECISION)
                             \o <<ChrBang>>
                             \o float_to_text(val.imag, AIIDA_FLOAT_PRECISION)))>>)

\* @_make_hash.register(numbers.Integral)
hash_integral(val, kw) == Returned(<<_single_digest("int", encode_utf8(IntToText(val.n)))>>)

\* @_make_hash.register(bool)
hash_bool(val, kw) == Returned(<<_single_digest("bool", IF val.b THEN <<1>> ELSE <<0>>)>>)

\* The null encoder writing the leaf of the empty text.
hash_none_as_empty_text(val, kw) == Returned(<<_single_digest("str", <<>>)>>)

\* @_make_hash.register(type(None))
hash_none(val, kw) == Returned(<<_single_digest("none", <<>>)>>)

\* The float of a number of seconds.
FloatOfNat(n) ==
    IF n = 0 THEN [neg |-> FALSE, digits |-> <<>>, exp |-> 0]
    ELSE [neg |-> FALSE, digits |-> StripZeros(NatDigits(n)), exp |-> Len(NatDigits(n)) - 1]

\* The datetime encoder hashing the wall-clock time whatever the zone.
hash_datetime_wall_clock(val, kw) ==
    Returned(<<_single_digest("datetime",
                 encode_utf8(float_to_text(FloatOfNat(val.wall), AIIDA_FLOAT_PRECISION)))>>)

\* @_make_hash.register(datetime), the Python 3 branch: a datetime is its
\* wall-clock time in seconds since 1970-01-01 00:00:00 and, when it is
\* aware, the offset of its zone in seconds.
hash_datetime(val, kw) ==
    LET timestamp == IF val.aware THEN val.wall - val.utcoffset ELSE val.wall
    IN  Returned(<<_single_digest("datetime",
                     encode_utf8(float_to_text(FloatOfNat(timestamp), AIIDA_FLOAT_PRECISION)))>>)

\* @_make_hash.register(uuid.UUID)
hash_uuid(val, kw) == Returned(<<_single_digest("uuid", val.bytes)>>)

\* Folder.get_content_list and Folder.open: whether listing the directory,
\* or opening the file for reading, raises (a missing path, no permission).
ListingFails(subfolder) == "oserror" \in DOMAIN subfolder
ReadFails(file) == "ioerror" \in DOMAIN file

RECURSIVE folder_digests(_, _)

\* folder_digests stopping at the first entry it cannot read or list and
\* yielding the digests it has produced so far.
folder_digests_partial(subfolder, ignored_folder_content) ==
    IF ListingFails(subfolder) THEN Returned(<<>>)
    ELSE
    LET sorted == SortedByName(subfolder.entries)
        Stops(e) ==
            /\ e.name \notin Range(ignored_folder_content)
            /\ IF e.isfile THEN ReadFails(e) ELSE ListingFails(e)
        n == IF \E i \in DOMAIN sorted : Stops(sorted[i])
             THEN (CHOOSE i \in DOMAIN sorted :
                      Stops(sorted[i]) /\ \A j \in 1..(i - 1) : ~Stops(sorted[j])) - 1
             ELSE Len(sorted)
        One(e) ==
            IF e.name \in Range(ignored_folder_content) THEN Returned(<<>>)
            ELSE IF e.isfile
            THEN Returned(<<_single_digest("fname", encode_utf8(e.name)),
                            _single_digest("fcontent", e.content)>>)
            ELSE Returned(<<_single_digest("dir(", encode_utf8(e.name))>>
                          \o folder_digests(e, ignored_folder_content).digests
                          \o <<_END_DIGEST>>)
    IN  Chain([i \in 1..n |-> One(sorted[i])])

\* folder_digests skipping the ignored names among the files only.
folder_digests_files_only(subfolder, ignored_folder_content) ==
    IF ListingFails(subfolder) THEN Raised("OSError")
    ELSE
    LET sorted == SortedByName(subfolder.entries)
        One(e) ==
            IF e.isfile
            THEN IF e.name \in Range(ignored_folder_content) THEN Returned(<<>>)
                 ELSE IF ReadFails(e) THEN Raised("IOError")
                 ELSE Returned(<<_single_digest("fname", encode_utf8(e.name)),
                                 _single_digest("fcontent", e.content)>>)
            ELSE LET sub == folder_digests(e, ignored_folder_content)
                 IN  IF sub.exc # "" THEN sub
                     ELSE Returned(<<_single_digest("dir(", encode_utf8(e.name))>>
                                   \o sub.digests \o <<_END_DIGEST>>)
    IN  Chain([i \in DOMAIN sorted |-> One(sorted[i])])

\* folder_digests visiting the entries in the order of the listing.
folder_digests_unsorted(subfolder, ignored_folder_content) ==
    IF ListingFails(subfolder) THEN Raised("OSError")
    ELSE
    LET One(e) ==
            IF e.name \in Range(ignored_folder_content) THEN Returned(<<>>)
            ELSE IF e.isfile
            THEN IF ReadFails(e) THEN Raised("IOError")
                 ELSE Returned(<<_single_digest("fname", encode_utf8(e.name)),
                                 _single_digest("fcontent", e.content)>>)
            ELSE LET sub == folder_digests(e, ignored_folder_content)
                 IN  IF sub.exc # "" THEN sub
                     ELSE Returned(<<_single_digest("dir(", encode_utf8(e.name))>>
                                   \o sub.digests \o <<_END_DIGEST>>)
    IN  Chain([i \in DOMAIN subfolder.entries |-> One(subfolder.entries[i])])

\* folder_digests yielding nothing for a subfolder that yields no digest.
folder_digests_content_only(subfolder, ignored_folder_content) ==
    IF ListingFails(subfolder) THEN Raised("OSError")
    ELSE
    LET sorted == SortedByName(subfolder.entries)
        One(e) ==
            IF e.name \in Range(ignored_folder_content) THEN Returned(<<>>)
            ELSE IF e.isfile
            THEN IF ReadFails(e) THEN Raised("IOError")
                 ELSE Returned(<<_single_digest("fname", encode_utf8(e.name)),
                                 _single_digest("fcontent", e.content)>>)
            ELSE LET sub == folder_digests(e, ignored_folder_content)
                 IN  IF sub.exc # "" THEN sub
                     ELSE IF sub.digests = <<>> THEN Returned(<<>>)
                     ELSE Returned(<<_single_digest("dir(", encode_utf8(e.name))>>
                                   \o sub.digests \o <<_END_DIGEST>>)
    IN  Chain([i \in DOMAIN sorted |-> One(sorted[i])])

\* folder_digests(subfolder): the directory is listed, the entries are
\* visited sorted by name, and the first failure of a listing or of a read
\* propagates.
folder_digests(subfolder, ignored_folder_content) ==
    IF ListingFails(subfolder) THEN Raised("OSError")
    ELSE
    LET sorted == SortedByName(subfolder.entries)
        One(e) ==
            IF e.name \in Range(ignored_folder_content) THEN Returned(<<>>)
            ELSE IF e.isfile
            THEN IF ReadFails(e) THEN Raised("IOError")
                 ELSE Returned(<<_single_digest("fname", encode_utf8(e.name)),
                                 _single_digest("fcontent", e.content)>>)
            ELSE LET sub == folder_digests(e, ignored_folder_content)
                 IN  IF sub.exc # "" THEN sub
                     ELSE Returned(<<_single_digest("dir(", encode_utf8(e.name))>>
                                   \o sub.digests \o <<_END_DIGEST>>)
    IN  Chain([i \in DOMAIN sorted |-> One(sorted[i])])

\* The folder encoder hashing the folder's own name into its first digest.
hash_folder_named(folder, kw) ==
    LET ignored_folder_content == KwGet(kw, "ignored_folder_content", <<>>)
        r == folder_digests(folder, ignored_folder_content)
    IN  IF r.exc # "" THEN r
        ELSE Returned(<<_single_digest("folder", encode_utf8(folder.name))>> \o r.digests)

\* @_make_hash.register(Folder)
hash_folder(folder, kw) ==
    LET ignored_folder_content == KwGet(kw, "ignored_folder_content", <<>>)
        r == folder_digests(folder, ignored_folder_content)
    IN  IF r.exc # "" THEN r
        ELSE Returned(<<_single_digest("folder", <<>>)>> \o r.digests)

\* The classes encoders are registered for, in the order of registration;
\* object is the class of the default.
Registry ==
    {"binary_type", "text_type", "Sequence", "Set", "Mapping", "OrderedDict", "Real",
     "Complex", "Integral", "bool", "NoneType", "datetime", "UUID", "Folder", "object"}

\* The method resolution order in which a tuple is no abc.Sequence and a
\* frozenset no abc.Set.
Mro_builtins_only(t) ==
    CASE t = "bytes" -> <<"binary_type", "Sequence", "object">>
      [] t = "str" -> <<"text_type", "Sequence", "object">>
      [] t = "list" -> <<"list", "MutableSequence", "Sequence", "object">>
      [] t = "set" -> <<"set", "MutableSet", "Set", "object">>
      [] t = "dict" -> <<"dict", "MutableMapping", "Mapping", "object">>
      [] t = "OrderedDict" -> <<"OrderedDict", "dict", "MutableMapping", "Mapping", "object">>
      [] t = "float" -> <<"float", "Real", "Complex", "Number", "object">>
      [] t = "complex" -> <<"complex", "Complex", "Number", "object">>
      [] t = "int" -> <<"int", "Integral", "Rational", "Real", "Complex", "Number", "object">>
      [] t = "bool" -> <<"bool", "int", "Integral", "Rational", "Real", "Complex",
                         "Number", "object">>
      [] t = "NoneType" -> <<"NoneType", "object">>
      [] t = "datetime" -> <<"datetime", "date", "object">>
      [] t = "UUID" -> <<"UUID", "object">>
      [] t = "Folder" -> <<"Folder", "object">>
      [] OTHER -> <<"object">>

\* The method resolution order singledispatch walks for a value of Python
\* type t: the classes of the type, most specific first, with the abstract
\* base classes the type is registered with (binary_type is bytes and
\* text_type is str, Python 3).
Mro(t) ==
    CASE t = "bytes" -> <<"binary_type", "Sequence", "object">>
      [] t = "str" -> <<"text_type", "Sequence", "object">>
      [] t = "list" -> <<"list", "MutableSequence", "Sequence", "object">>
      [] t = "tuple" -> <<"tuple", "Sequence", "object">>
      [] t = "set" -> <<"set", "MutableSet", "Set", "object">>
      [] t = "frozenset" -> <<"frozenset", "Set", "object">>
      [] t = "dict" -> <<"dict", "MutableMapping", "Mapping", "object">>
      [] t = "OrderedDict" -> <<"OrderedDict", "dict", "MutableMapping", "Mapping", "object">>
      [] t = "float" -> <<"float", "Real", "Complex", "Number", "object">>
      [] t = "complex" -> <<"complex", "Complex", "Number", "object">>
      [] t = "int" -> <<"int", "Integral", "Rational", "Real", "Complex", "Number", "object">>
      [] t = "bool" -> <<"bool", "int", "Integral", "Rational", "Real", "Complex",
                         "Number", "object">>
      [] t = "NoneType" -> <<"NoneType", "object">>
      [] t = "datetime" -> <<"datetime", "date", "object">>
      [] t = "UUID" -> <<"UUID", "object">>
      [] t = "Folder" -> <<"Folder", "object">>
      [] OTHER -> <<"object">>

\* The first class of mro an encoder of registry is registered for.
FirstRegistered(mro, registry) ==
    mro[CHOOSE i \in DOMAIN mro :
            mro[i] \in registry /\ \A j \in 1..(i - 1) : mro[j] \notin registry]

\* The dispatch with no encoder registered for OrderedDict.
Dispatch_odict_unregistered(t) == FirstRegistered(Mro(t), Registry \ {"OrderedDict"})

\* The encoder singledispatch selects for a value of Python type t: the
\* registered class that comes first in the method resolution order.
Dispatch(t) == FirstRegistered(Mro(t), Registry)

\* The default returning a digest for any value instead of raising.
hash_default_sentinel(o, kw) == Returned(<<_single_digest("none", <<>>)>>)

\* @singledispatch def _make_hash(object_to_hash, **_): the default
hash_default(o, kw) == Raised("ValueError")

_make_hash(o, kw) ==
    LET d == Dispatch(o.t)
    IN  CASE d = "binary_type" -> hash_binary(o, kw)
          [] d = "text_type" -> hash_text(o, kw)
          [] d = "Sequence" -> hash_sequence(o, kw)
          [] d = "Set" -> hash_set(o, kw)
          [] d = "Mapping" -> hash_mapping(o, kw)
          [] d = "OrderedDict" -> hash_odict(o, kw)
          [] d = "Real" -> hash_real(o, kw)
          [] d = "Complex" -> hash_complex(o, kw)
          [] d = "Integral" -> hash_integral(o, kw)
          [] d = "bool" -> hash_bool(o, kw)
          [] d = "NoneType" -> hash_none(o, kw)
          [] d = "datetime" -> hash_datetime(o, kw)
          [] d = "UUID" -> hash_uuid(o, kw)
          [] d = "Folder" -> hash_folder(o, kw)
          [] OTHER -> hash_default(o, kw)

\* The characters hexdigest() writes a byte with.
HexDigits == "0123456789abcdef"

\* The digest of the accumulator read out with the default digest size of
\* blake2b, 64 bytes.
hexdigest_default_size(blocks) ==
    [node_depth |-> 1, last_node |-> TRUE, blocks |-> blocks,
     hexlen |-> 2 * 64, alphabet |-> HexDigits]

\* final_hash.hexdigest() of the accumulator
\* blake2b(node_depth=1, last_node=True, **BLAKE2B_OPTIONS) fed the blocks:
\* two characters of HexDigits for each of the digest_size bytes.
hexdigest(blocks) ==
    [node_depth |-> 1, last_node |-> TRUE, blocks |-> blocks,
     hexlen |-> 2 * BLAKE2B_OPTIONS.digest_size, alphabet |-> HexDigits]

\* The outcome of a whole call of make_hash.
make_hash(o, kw) ==
    LET h == _make_hash(o, kw)
    IN  IF h.exc # "" THEN [exc |-> h.exc]
        ELSE [exc |-> "", hexdigest |-> hexdigest(h.digests \o <<EmptyLeafDigest>>)]

(***************************************************************************)
(* The values make_hash is called with.                                    *)
(***************************************************************************)
PyNone == [t |-> "NoneType"]
PyBool(b) == [t |-> "bool", b |-> b]
PyInt(n) == [t |-> "int", n |-> n]
PyFloat(digits, exp) == [t |-> "float", neg |-> FALSE, digits |-> digits, exp |-> exp]
PyStr(text) == [t |-> "str", text |-> text]
PyBytes(bytes) == [t |-> "bytes", bytes |-> bytes]
PyList(items) == [t |-> "list", items |-> items]
PyTuple(items) == [t |-> "tuple", items |-> items]
PySet(items) == [t |-> "set", items |-> items]
PyFrozenSet(items) == [t |-> "frozenset", items |-> items]
PyDict(entries) == [t |-> "dict", entries |-> entries]
PyOrderedDict(entries) == [t |-> "OrderedDict", entries |-> entries]
PyFolder(name, entries) == [t |-> "Folder", name |-> name, entries |-> entries]
File(name, content) == [name |-> name, isfile |-> TRUE, content |-> content]
Dir(name, entries) == [name |-> name, isfile |-> FALSE, entries |-> entries]
\* A file that cannot be opened, a directory that cannot be listed.
UnreadableFile(name) == [name |-> name, isfile |-> TRUE, content |-> <<>>, ioerror |-> TRUE]
UnlistableDir(name) == [name |-> name, isfile |-> FALSE, entries |-> <<>>, oserror |-> TRUE]
\* An instance of a class no encoder is registered for.
PyObject == [t |-> "object"]

Int1 == PyInt(1)
Int2 == PyInt(2)
\* 1.0
Float1 == PyFloat(<<1>>, 0)
\* 1.0000000001
Float1e == PyFloat(<<1, 0, 0, 0, 0, 0, 0, 0, 0, 0, 1>>, 0)
\* 1.0000000000000002, the float next to 1.0
Float1u == PyFloat(<<1, 0, 0, 0, 0, 0, 0, 0, 0, 0, 0, 0, 0, 0, 0, 0, 2>>, 0)
\* u"1" and b"1"
Str1 == PyStr(<<49>>)
Bytes1 == PyBytes(<<49>>)
\* u"\xe9" and its UTF-8 encoding b"\xc3\xa9"
StrE == PyStr(<<233>>)
BytesE == PyBytes(<<195, 169>>)
Tuple12 == PyTuple(<<Int1, Int2>>)
Tuple2 == PyTuple(<<Int2>>)

\* The value the calls that must raise are made on.
Unsupported == PyObject

\* 1970-01-02 00:00:00 without a zone, and the same instant at +01:00.
NaiveDatetime == [t |-> "datetime", aware |-> FALSE, wall |-> 86400, utcoffset |-> 0]
AwareDatetime == [t |-> "datetime", aware |-> TRUE, wall |-> 90000, utcoffset |-> 3600]

\* The same instant as NaiveDatetime in UTC and at -05:00, and the
\* wall-clock time of NaiveDatetime at +01:00, an hour earlier.
Datetimes ==
    {[t |-> "datetime", aware |-> TRUE, wall |-> 86400, utcoffset |-> 0],
     [t |-> "datetime", aware |-> TRUE, wall |-> 68400, utcoffset |-> -18000],
     [t |-> "datetime", aware |-> TRUE, wall |-> 86400, utcoffset |-> 3600]}

\* 86400.0, the epoch seconds of NaiveDatetime as a real.
EpochSeconds == PyFloat(<<8, 6, 4>>, 4)

PyComplex(real, imag) == [t |-> "complex", real |-> real, imag |-> imag]

\* 0.0, -0.0, 5.0, 11.0 and 15.0
Float0 == [t |-> "float", neg |-> FALSE, digits |-> <<>>, exp |-> 0]
FloatNeg0 == [t |-> "float", neg |-> TRUE, digits |-> <<>>, exp |-> 0]
Float5 == PyFloat(<<5>>, 0)
Float11 == PyFloat(<<1, 1>>, 1)
Float15 == PyFloat(<<1, 5>>, 1)

\* Complex numbers: parts with the same rendering (1.0 and the float next
\* to it), a zero imaginary part of either sign, and parts whose
\* renderings written one after the other read the same (1, 15 and 11, 5).
Complexes ==
    {PyComplex(Float1, Float0), PyComplex(Float1u, Float0), PyComplex(Float1, FloatNeg0),
     PyComplex(Float1e, Float0), PyComplex(Float1, Float1u), PyComplex(Float1u, Float1),
     PyComplex(Float1, Float15), PyComplex(Float11, Float5), PyComplex(Float0, Float1),
     PyComplex(PyFloat(<<1>>, 20), PyFloat(<<1>>, -5))}

Scalars ==
    {PyNone, PyBool(TRUE), PyBool(FALSE), Int1, Int2, PyInt(-12), Float1, Float1e,
     Float1u, PyFloat(<<1, 5>>, 0), PyFloat(<<1>>, 20), Str1, Bytes1, StrE, BytesE,
     [t |-> "complex", real |-> Float1, imag |-> Float1e],
     NaiveDatetime, AwareDatetime,
     [t |-> "UUID", bytes |-> [i \in 1..16 |-> i]]}
    \cup Datetimes \cup Complexes \cup {EpochSeconds, PyStr(<<>>)}

\* Python's ==, for the values that are members of sets and keys of
\* mappings: numbers compare by value whatever their type, text and bytes
\* never compare equal.
IsNumber(v) == v.t \in {"bool", "int", "float"}

NumberValue(v) ==
    CASE v.t = "bool" -> <<FALSE, IF v.b THEN <<1>> ELSE <<>>, 0>>
      [] v.t = "int" ->
            LET a == IF v.n < 0 THEN 0 - v.n ELSE v.n
            IN  IF a = 0 THEN <<FALSE, <<>>, 0>>
                ELSE <<v.n < 0, StripZeros(NatDigits(a)), Len(NatDigits(a)) - 1>>
      [] v.t = "float" -> <<v.neg /\ v.digits # <<>>, v.digits,
                            IF v.digits = <<>> THEN 0 ELSE v.exp>>

RECURSIVE PyEq(_, _)
PyEq(a, b) ==
    IF IsNumber(a) /\ IsNumber(b) THEN NumberValue(a) = NumberValue(b)
    ELSE IF a.t # b.t THEN FALSE
    ELSE IF a.t = "tuple"
    THEN /\ Len(a.items) = Len(b.items)
         /\ \A i \in DOMAIN a.items : PyEq(a.items[i], b.items[i])
    ELSE IF a.t = "frozenset"
    THEN /\ \A i \in DOMAIN a.items : \E j \in DOMAIN b.items : PyEq(a.items[i], b.items[j])
         /\ \A j \in DOMAIN b.items : \E i \in DOMAIN a.items : PyEq(a.items[i], b.items[j])
    ELSE a = b

\* Sequences over S of length at most n.
Seqs(S, n) == UNION {[1..k -> S] : k \in 0..n}

\* The orders in which a set of at most n members of S can be iterated.
DistinctSeqs(S, n) ==
    {s \in Seqs(S, n) : \A i, j \in DOMAIN s : i < j => ~PyEq(s[i], s[j])}

\* The orders in which a mapping of at most n entries, keys in K and values
\* in V, can be iterated.
ItemSeqs(K, V, n) ==
    {s \in Seqs(K \X V, n) : \A i, j \in DOMAIN s : i < j => ~PyEq(s[i][1], s[j][1])}

SeqElems == {Int1, Int2, Str1, Bytes1, Unsupported, Tuple12}
SetElems == {Int1, Float1, Str1, Bytes1, Tuple12, Tuple2, Unsupported}
KeyElems == {Str1, Bytes1, Int1, Tuple2, Unsupported}
ValElems == {Int1, Int2, Unsupported}

Lists == {PyList(s) : s \in Seqs(SeqElems, MaxLen)}
Tuples == {PyTuple(s) : s \in Seqs({Int1, Int2}, MaxLen)}
Sets == {PySet(s) : s \in DistinctSeqs(SetElems, MaxLen)}
FrozenSets == {PyFrozenSet(s) : s \in DistinctSeqs({Int1, Str1}, MaxLen)}
Dicts == {PyDict(s) : s \in ItemSeqs(KeyElems, ValElems, MaxLen)}
OrderedDicts == {PyOrderedDict(s) : s \in ItemSeqs(KeyElems, ValElems, MaxLen)}

\* Folders: the names and the file contents of the directory trees.
NameA == <<97>>
NameB == <<98>>
Names == {NameA, NameB}
ContentX == <<120>>
ContentY == <<121>>
RootNames == {<<100, 49>>, <<100, 50>>}

\* The lists get_content_list can return for a directory with entries
\* from E: every order, no name twice.
Listings(E) ==
    {s \in Seqs(E, Cardinality(Names)) :
        \A i, j \in DOMAIN s : i < j => s[i].name # s[j].name}

Files == {File(n, c) : n \in Names, c \in {ContentX, ContentY}}
SubDirs == {Dir(n, l) : n \in Names, l \in Listings({File(m, ContentX) : m \in Names})}
Folders == {PyFolder(r, l) : r \in RootNames, l \in Listings(Files \cup SubDirs)}

\* Directory trees in which a read or a listing fails: an unreadable file
\* or an unlistable directory in the root or in a subfolder, next to
\* readable entries before and after it; and a root that cannot be listed.
FaultyEntries ==
    {UnreadableFile(n) : n \in Names} \cup {UnlistableDir(n) : n \in Names}
    \cup {Dir(n, l) : n \in Names,
                      l \in {k \in Listings({File(m, ContentX) : m \in Names}
                                           \cup {UnreadableFile(m) : m \in Names}) :
                                \E i \in DOMAIN k : ReadFails(k[i])}}
FaultyFolders ==
    {PyFolder(<<100, 49>>, l) :
        l \in {k \in Listings(Files \cup SubDirs \cup FaultyEntries) :
                  \E i \in DOMAIN k : k[i] \in FaultyEntries}}
    \cup {[t |-> "Folder", name |-> <<100, 49>>, entries |-> <<>>, oserror |-> TRUE]}

\* Containers inside containers.
Inner ==
    {PyList(<<Unsupported>>), PyTuple(<<Unsupported>>),
     PySet(<<Str1, Int1>>), PySet(<<Int1, Str1>>),
     PyDict(<<<<Str1, Unsupported>>>>), PyDict(<<<<Unsupported, Int1>>>>),
     PyOrderedDict(<<<<Str1, Int1>>, <<Int1, Int2>>>>),
     PyOrderedDict(<<<<Int1, Int2>>, <<Str1, Int1>>>>),
     PyOrderedDict(<<<<Int1, Unsupported>>>>),
     StrE, BytesE,
     PyFolder(<<100, 49>>, <<File(NameA, ContentX), File(NameB, ContentY)>>),
     PyFolder(<<100, 49>>, <<File(NameA, ContentX), UnreadableFile(NameB)>>)}
InnerKeys ==
    {PyTuple(<<Unsupported>>), PyTuple(<<StrE>>), PyTuple(<<BytesE>>),
     PyFrozenSet(<<Unsupported>>)}
Nested ==
    {PyList(<<x>>) : x \in Inner} \cup {PyList(<<PyList(<<x>>)>>) : x \in Inner}
    \cup {PyDict(<<<<Str1, x>>>>) : x \in Inner}
    \cup {PyOrderedDict(<<<<Str1, x>>>>) : x \in Inner}
    \cup {PySet(<<k>>) : k \in InnerKeys}
    \cup {PyDict(<<<<k, Int1>>>>) : k \in InnerKeys}
    \cup {PyOrderedDict(<<<<k, Int1>>>>) : k \in InnerKeys}

\* Mappings whose values have, two by two, the same digests without being
\* the same value: a text and its encoding, 1.0 and the float next to it.
SameDigestValues ==
    {PyDict(<<<<k[1], v[1]>>, <<k[2], v[2]>>>>) :
        k \in {<<Str1, Int1>>, <<Int1, Str1>>, <<Str1, Bytes1>>},
        v \in {<<Str1, Bytes1>>, <<Float1, Float1u>>, <<StrE, BytesE>>}}

\* Values whose leaves are the same or nearly so under different nestings:
\* [[1], [2]], [[1, 2]], ((1,), (2,)), {1, 2}, {(1, 2)}, a tuple as a key and
\* as a value, and, inside a list, a folder followed by another folder or
\* by strings, and a folder holding more entries.
EncodingCases ==
    {PyList(<<PyList(<<Int1>>), PyList(<<Int2>>)>>),
     PyList(<<PyList(<<Int1, Int2>>)>>),
     PyList(<<Int1, Int2>>),
     PyList(<<Tuple12>>),
     PyTuple(<<PyTuple(<<Int1>>), Tuple2>>),
     PyList(<<PyList(<<>>), PyList(<<>>)>>),
     PyList(<<PyList(<<PyList(<<>>)>>)>>),
     PySet(<<Int1, Int2>>), PyFrozenSet(<<Int2, Int1>>), PySet(<<Tuple12>>),
     PySet(<<PyFrozenSet(<<Int1, Int2>>)>>),
     PyDict(<<<<Tuple12, Int1>>>>), PyDict(<<<<Int1, Tuple12>>>>),
     PyDict(<<<<Int1, PyTuple(<<Int2, Int1>>)>>>>),
     PyDict(<<<<Int1, Int2>>, <<Int2, Int1>>>>),
     PyOrderedDict(<<<<Int2, Int1>>, <<Int1, Int2>>>>),
     PyOrderedDict(<<<<Int1, Int2>>, <<Int2, Int1>>>>),
     PyList(<<PyFolder(<<100, 49>>, <<File(NameA, ContentX)>>),
              PyFolder(<<100, 49>>, <<File(NameB, ContentX)>>)>>),
     PyList(<<PyFolder(<<100, 49>>, <<File(NameA, ContentX)>>),
              PyBytes(NameB), PyBytes(ContentX)>>),
     PyList(<<PyFolder(<<100, 49>>, <<File(NameA, ContentX), File(NameB, ContentX)>>)>>),
     PyList(<<PyFolder(<<100, 50>>, <<File(NameB, ContentX), File(NameA, ContentX)>>)>>),
     PyList(<<PyFolder(<<100, 49>>, <<File(NameA, ContentX)>>)>>),
     PyList(<<PyFolder(<<100, 49>>, <<Dir(NameA, <<>>)>>), PyList(<<>>)>>),
     PyList(<<PyFolder(<<100, 49>>, <<Dir(NameA, <<>>), Dir(NameB, <<>>)>>)>>),
     PyList(<<PyList(<<PyFolder(<<100, 49>>, <<Dir(NameA, <<>>)>>)>>)>>),
     PyList(<<PyFolder(<<100, 49>>, <<Dir(NameA, <<Dir(NameB, <<>>)>>)>>)>>)}

Values ==
    Scalars \cup {Unsupported} \cup Lists \cup Tuples \cup Sets \cup FrozenSets
    \cup Dicts \cup OrderedDicts \cup Folders \cup Nested
    \cup FaultyFolders \cup SameDigestValues \cup EncodingCases

\* The keyword arguments make_hash is called with.
Kwargs ==
    {NoKwargs,
     [odict_as_unordered |-> TRUE],
     [odict_as_unordered |-> FALSE],
     [ignored_folder_content |-> <<NameB>>],
     [odict_as_unordered |-> TRUE, ignored_folder_content |-> <<NameB>>],
     [float_precision |-> 6],
     [float_precision |-> 12],
     [some_other_option |-> TRUE]}

(***************************************************************************)
(* One call of make_hash.                                                  *)
(***************************************************************************)
NoResult == [pending |-> TRUE]

\* The walk popping the members and entries off the containers it hashes.
object_after_walk_consumed(o, kw) ==
    IF "items" \in DOMAIN o THEN [o EXCEPT !.items = <<>>]
    ELSE IF "entries" \in DOMAIN o THEN [o EXCEPT !.entries = <<>>]
    ELSE o

\* The value passed in as the walk leaves it: the encoders iterate
\* (for ... in, items()), sort copies (sorted()) and open files for reading
\* (mode='rb'); none of them stores into the value.
object_after_walk(o, kw) == o

Init ==
    /\ object_to_hash \in Values
    /\ kwargs \in Kwargs
    /\ pc = "call"
    /\ hashes = <<>>
    /\ final_hash = <<>>
    /\ fed = 0
    /\ result = NoResult

\* hashes = _make_hash(object_to_hash, **kwargs), when it returns
Walk ==
    /\ pc = "call"
    /\ _make_hash(object_to_hash, kwargs).exc = ""
    /\ hashes' = _make_hash(object_to_hash, kwargs).digests
    /\ object_to_hash' = object_after_walk(object_to_hash, kwargs)
    /\ pc' = "walked"
    /\ UNCHANGED <<kwargs, final_hash, fed, result>>

\* hashes = _make_hash(object_to_hash, **kwargs), when it raises: the
\* exception leaves make_hash
WalkRaises ==
    /\ pc = "call"
    /\ _make_hash(object_to_hash, kwargs).exc # ""
    /\ result' = [exc |-> _make_hash(object_to_hash, kwargs).exc]
    /\ object_to_hash' = object_after_walk(object_to_hash, kwargs)
    /\ pc' = "raised"
    /\ UNCHANGED <<kwargs, hashes, final_hash, fed>>

\* final_hash = blake2b(node_depth=1, last_node=True, **BLAKE2B_OPTIONS)
NewAccumulator ==
    /\ pc = "walked"
    /\ final_hash' = <<>>
    /\ fed' = 0
    /\ pc' = "loop"
    /\ UNCHANGED <<object_to_hash, kwargs, hashes, result>>

\* The loop feeding each leaf digest in front of those fed before it.
Update_prepending ==
    /\ pc = "loop"
    /\ fed < Len(hashes)
    /\ final_hash' = <<hashes[fed + 1]>> \o final_hash
    /\ fed' = fed + 1
    /\ UNCHANGED <<object_to_hash, kwargs, pc, hashes, result>>

\* for sub in hashes: final_hash.update(sub)
Update ==
    /\ pc = "loop"
    /\ fed < Len(hashes)
    /\ final_hash' = Append(final_hash, hashes[fed + 1])
    /\ fed' = fed + 1
    /\ UNCHANGED <<object_to_hash, kwargs, pc, hashes, result>>

\* The loop never left: the closing digest fed only past the end of hashes.
Close_past_the_end ==
    /\ pc = "loop"
    /\ fed > Len(hashes)
    /\ final_hash' = Append(final_hash, EmptyLeafDigest)
    /\ pc' = "closed"
    /\ UNCHANGED <<object_to_hash, kwargs, hashes, fed, result>>

\* final_hash.update(blake2b(node_depth=0, last_node=True, ...).digest())
Close ==
    /\ pc = "loop"
    /\ fed = Len(hashes)
    /\ final_hash' = Append(final_hash, EmptyLeafDigest)
    /\ pc' = "closed"
    /\ UNCHANGED <<object_to_hash, kwargs, hashes, fed, result>>

\* return final_hash.hexdigest()
Return ==
    /\ pc = "closed"
    /\ result' = [exc |-> "", hexdigest |-> hexdigest(final_hash)]
    /\ pc' = "done"
    /\ UNCHANGED <<object_to_hash, kwargs, hashes, final_hash, fed>>

Next == Walk \/ WalkRaises \/ NewAccumulator \/ Update \/ Close \/ Return

Spec == Init /\ [][Next]_vars

\* A call is one thread of control running make_hash from its first
\* statement to its return or its exception: a statement that can be
\* executed is executed.  The walk is the one step possible while pc is
\* "call", and it is possible in every such state, returning or raising:
\* its weak fairness is that the call does not stay at "call" for ever.
SpecFair ==
    /\ Init /\ [][Next]_vars
    /\ []<>(pc # "call")
    /\ WF_vars(NewAccumulator \/ Update \/ Close \/ Return)

(***************************************************************************)
(* Several calls of make_hash running interleaved (threads of one          *)
(* process).  Each variable holds, per call, what the variable of the      *)
(* same name holds for one call; the steps of a call are those of Next.    *)
(***************************************************************************)
Calls == 1..NumCalls

\* The inputs of the interleaved calls: independent values, one per call.
ConcurrentValues ==
    {Int1, Tuple12, PySet(<<Str1, Int1>>), PyList(<<Unsupported>>),
     PyFolder(<<100, 49>>, <<File(NameA, ContentX)>>)}
ConcurrentKwargs == {NoKwargs, [odict_as_unordered |-> TRUE]}

\* One accumulator of the module, used by all the calls.
AccumulatorOfModule(call) == 1

\* The accumulator a call feeds: final_hash is a local variable of
\* make_hash, a new blake2b object in every call.
AccumulatorOf(call) == call

InitConcurrent ==
    /\ object_to_hash \in [Calls -> ConcurrentValues]
    /\ kwargs \in [Calls -> ConcurrentKwargs]
    /\ pc = [c \in Calls |-> "call"]
    /\ hashes = [c \in Calls |-> <<>>]
    /\ final_hash = [c \in Calls |-> <<>>]
    /\ fed = [c \in Calls |-> 0]
    /\ result = [c \in Calls |-> NoResult]

CallWalk(c) ==
    /\ pc[c] = "call"
    /\ _make_hash(object_to_hash[c], kwargs[c]).exc = ""
    /\ hashes' = [hashes EXCEPT ![c] = _make_hash(object_to_hash[c], kwargs[c]).digests]
    /\ object_to_hash' = [object_to_hash EXCEPT
                             ![c] = object_after_walk(object_to_hash[c], kwargs[c])]
    /\ pc' = [pc EXCEPT ![c] = "walked"]
    /\ UNCHANGED <<kwargs, final_hash, fed, result>>

CallWalkRaises(c) ==
    /\ pc[c] = "call"
    /\ _make_hash(object_to_hash[c], kwargs[c]).exc # ""
    /\ result' = [result EXCEPT ![c] = [exc |-> _make_hash(object_to_hash[c], kwargs[c]).exc]]
    /\ object_to_hash' = [object_to_hash EXCEPT
                             ![c] = object_after_walk(object_to_hash[c], kwargs[c])]
    /\ pc' = [pc EXCEPT ![c] = "raised"]
    /\ UNCHANGED <<kwargs, hashes, final_hash, fed>>

CallNewAccumulator(c) ==
    /\ pc[c] = "walked"
    /\ final_hash' = [final_hash EXCEPT ![AccumulatorOf(c)] = <<>>]
    /\ fed' = [fed EXCEPT ![c] = 0]
    /\ pc' = [pc EXCEPT ![c] = "loop"]
    /\ UNCHANGED <<object_to_hash, kwargs, hashes, result>>

CallUpdate(c) ==
    /\ pc[c] = "loop"
    /\ fed[c] < Len(hashes[c])
    /\ final_hash' = [final_hash EXCEPT
                         ![AccumulatorOf(c)] = Append(@, hashes[c][fed[c] + 1])]
    /\ fed' = [fed EXCEPT ![c] = @ + 1]
    /\ UNCHANGED <<object_to_hash, kwargs, pc, hashes, result>>

CallClose(c) ==
    /\ pc[c] = "loop"
    /\ fed[c] = Len(hashes[c])
    /\ final_hash' = [final_hash EXCEPT ![AccumulatorOf(c)] = Append(@, EmptyLeafDigest)]
    /\ pc' = [pc EXCEPT ![c] = "closed"]
    /\ UNCHANGED <<object_to_hash, kwargs, hashes, fed, result>>

CallReturn(c) ==
    /\ pc[c] = "closed"
    /\ result' = [result EXCEPT
                     ![c] = [exc |-> "", hexdigest |-> hexdigest(final_hash[AccumulatorOf(c)])]]
    /\ pc' = [pc EXCEPT ![c] = "done"]
    /\ UNCHANGED <<object_to_hash, kwargs, hashes, final_hash, fed>>

NextConcurrent ==
    \E c \in Calls :
        \/ CallWalk(c)
        \/ CallWalkRaises(c)
        \/ CallNewAccumulator(c)
        \/ CallUpdate(c)
        \/ CallClose(c)
        \/ CallReturn(c)

SpecConcurrent == InitConcurrent /\ [][NextConcurrent]_vars

(***************************************************************************)
(* Values with the same content.                                           *)
(***************************************************************************)
\* The orders in which the items of s can come.
Perms(s) == {[i \in DOMAIN s |-> s[f[i]]] : f \in Permutations(DOMAIN s)}

\* The sequences that take their i-th element from sets[i].
ChoiceSeqs(sets) ==
    {s \in [DOMAIN sets -> UNION Range(sets)] : \A i \in DOMAIN sets : s[i] \in sets[i]}

\* The lists get_content_list can return for the same directory tree.
RECURSIVE ListingOrders(_)
ListingOrders(entries) ==
    UNION {Perms(s) : s \in ChoiceSeqs([i \in DOMAIN entries |->
        IF entries[i].isfile THEN {entries[i]}
        ELSE {[entries[i] EXCEPT !.entries = l] : l \in ListingOrders(entries[i].entries)}])}

\* The values that have the content of v: the same members, entries and
\* files, met in any iteration order of the sets, the mappings and the
\* directories at every depth.
RECURSIVE Reorderings(_)
Reorderings(v) ==
    CASE v.t \in {"list", "tuple"} ->
            {[v EXCEPT !.items = s] :
                s \in ChoiceSeqs([i \in DOMAIN v.items |-> Reorderings(v.items[i])])}
      [] v.t \in {"set", "frozenset"} ->
            {[v EXCEPT !.items = p] :
                p \in UNION {Perms(s) :
                    s \in ChoiceSeqs([i \in DOMAIN v.items |-> Reorderings(v.items[i])])}}
      [] v.t = "dict" ->
            {[v EXCEPT !.entries = p] :
                p \in UNION {Perms(s) :
                    s \in ChoiceSeqs([i \in DOMAIN v.entries |->
                        Reorderings(v.entries[i][1]) \X Reorderings(v.entries[i][2])])}}
      [] v.t = "OrderedDict" ->
            {[v EXCEPT !.entries = s] :
                s \in ChoiceSeqs([i \in DOMAIN v.entries |->
                    Reorderings(v.entries[i][1]) \X Reorderings(v.entries[i][2])])}
      [] v.t = "Folder" -> {[v EXCEPT !.entries = l] : l \in ListingOrders(v.entries)}
      [] OTHER -> {v}

\* Whether Python can hold v as a member of a set or a key of a mapping.
RECURSIVE Hashable(_)
Hashable(v) ==
    /\ v.t \notin {"list", "set", "dict", "OrderedDict"}
    /\ v.t = "tuple" => \A i \in DOMAIN v.items : Hashable(v.items[i])

\* Whether v is a value Python can build: the members of a set and the
\* keys of a mapping are hashable and pairwise different.
RECURSIVE WellFormed(_)
WellFormed(v) ==
    CASE v.t \in {"list", "tuple"} -> \A i \in DOMAIN v.items : WellFormed(v.items[i])
      [] v.t \in {"set", "frozenset"} ->
            /\ \A i \in DOMAIN v.items : Hashable(v.items[i]) /\ WellFormed(v.items[i])
            /\ \A i, j \in DOMAIN v.items : i < j => ~PyEq(v.items[i], v.items[j])
      [] v.t \in {"dict", "OrderedDict"} ->
            /\ \A i \in DOMAIN v.entries :
                  /\ Hashable(v.entries[i][1])
                  /\ WellFormed(v.entries[i][1])
                  /\ WellFormed(v.entries[i][2])
            /\ \A i, j \in DOMAIN v.entries :
                  i < j => ~PyEq(v.entries[i][1], v.entries[j][1])
      [] OTHER -> TRUE

Terminated == pc \in {"done", "raised"}

(***************************************************************************)
(* Helpers of the properties.                                              *)
(***************************************************************************)
\* The list of digests _make_hash returns for w under the call's kwargs.
DigestsOf(w) == _make_hash(w, kwargs).digests

\* Whether the call's kwargs leave odict_as_unordered absent or false.
FlagOff == ~KwGet(kwargs, "odict_as_unordered", FALSE)

\* v with every text replaced by the byte string of its UTF-8 encoding.
RECURSIVE EncodeText(_)
EncodeText(v) ==
    CASE v.t = "str" -> PyBytes(encode_utf8(v.text))
      [] v.t \in {"list", "tuple", "set", "frozenset"} ->
            [v EXCEPT !.items = [i \in DOMAIN v.items |-> EncodeText(v.items[i])]]
      [] v.t \in {"dict", "OrderedDict"} ->
            [v EXCEPT !.entries = [i \in DOMAIN v.entries |->
                <<EncodeText(v.entries[i][1]), EncodeText(v.entries[i][2])>>]]
      [] OTHER -> v

\* Whether v is, or holds at some depth, a value no encoder is registered for.
RECURSIVE ContainsUnsupported(_)
ContainsUnsupported(v) ==
    CASE v.t \in {"list", "tuple", "set", "frozenset"} ->
            \E i \in DOMAIN v.items : ContainsUnsupported(v.items[i])
      [] v.t \in {"dict", "OrderedDict"} ->
            \E i \in DOMAIN v.entries :
                ContainsUnsupported(v.entries[i][1]) \/ ContainsUnsupported(v.entries[i][2])
      [] OTHER -> Dispatch(v.t) = "object"

\* A name no directory of the model holds.
NameC == <<99>>

\* The listings obtained from entries by one edit of one file that the
\* ignore-list does not exclude, at any depth: the file renamed to a name
\* its directory does not hold, or its bytes changed.
RECURSIVE EntryEdits(_, _)
EntryEdits(entries, ignored) ==
    UNION {
        IF entries[i].name \in Range(ignored) THEN {}
        ELSE IF entries[i].isfile
        THEN {[entries EXCEPT ![i].name = n] :
                 n \in (Names \cup {NameC}) \ {entries[j].name : j \in DOMAIN entries}}
             \cup {[entries EXCEPT ![i].content = c] :
                      c \in {ContentX, ContentY} \ {entries[i].content}}
        ELSE {[entries EXCEPT ![i].entries = l] :
                 l \in EntryEdits(entries[i].entries, ignored)}
        : i \in DOMAIN entries}

(***************************************************************************)
(* Properties.                                                             *)
(***************************************************************************)

\* C1: make_hash is deterministic: the outcome of a call depends on the
\* content of the value and on the options only, so every value with the
\* same content (the sets, mappings and directories at any depth iterated
\* in any other order, as another run may) gives the outcome the call gave.
C1_Deterministic ==
    Terminated =>
        \A w \in Reorderings(object_to_hash) : make_hash(w, kwargs) = result

\* C2: a set hashes the same in every iteration order of its members,
\* heterogeneous members and members with several leaf digests included.
C2_SetOrderIndependent ==
    Terminated /\ object_to_hash.t \in {"set", "frozenset"} =>
        \A p \in Perms(object_to_hash.items) :
            make_hash([object_to_hash EXCEPT !.items = p], kwargs) = result

\* A call has hashed a set of members of different types, one of them a
\* tuple with several leaf digests, and the sort has moved the members.
C2_Witness ==
    /\ pc = "done"
    /\ object_to_hash.t = "set"
    /\ \E i, j \in DOMAIN object_to_hash.items :
          /\ object_to_hash.items[i].t = "tuple"
          /\ Len(DigestsOf(object_to_hash.items[i])) > 1
          /\ object_to_hash.items[j].t = "str"
    /\ hashes # hash_set_unsorted(object_to_hash, kwargs).digests

\* C3: an unordered mapping hashes the same in every insertion order of
\* its entries, whatever the types of its (pairwise different) keys.
C3_MappingOrderIndependent ==
    Terminated /\ object_to_hash.t = "dict" =>
        \A p \in Perms(object_to_hash.entries) :
            make_hash([object_to_hash EXCEPT !.entries = p], kwargs) = result

\* C4: the leaf digests of a sequence are those of its elements in the
\* order of the elements, and a sequence with the same elements in another
\* order, some position then holding an element with other digests, has
\* another digest.
C4_SequenceOrderSensitive ==
    pc = "done" /\ object_to_hash.t \in {"list", "tuple"} =>
        /\ hashes = <<_single_digest("list(", <<>>)>>
                    \o Flatten([i \in DOMAIN object_to_hash.items |->
                                   DigestsOf(object_to_hash.items[i])])
                    \o <<_END_DIGEST>>
        /\ \A p \in Perms(object_to_hash.items) :
              (\E i \in DOMAIN p : DigestsOf(p[i]) # DigestsOf(object_to_hash.items[i]))
              => make_hash([object_to_hash EXCEPT !.items = p], kwargs) # result

\* A call has hashed a list of two elements with different digests whose
\* digests do not come in sorted order.
C4_Witness ==
    /\ pc = "done"
    /\ object_to_hash.t = "list"
    /\ Len(object_to_hash.items) >= 2
    /\ DigestsOf(object_to_hash.items[1]) # DigestsOf(object_to_hash.items[2])
    /\ hashes # hash_sequence_sorted(object_to_hash, kwargs).digests

\* C5 as stated: with the flag absent or false, an ordered mapping with
\* the same entries in any other insertion order has another digest, and
\* so has the unordered mapping with the same entries.
C5_OrderedDictOrderSensitive ==
    pc = "done" /\ object_to_hash.t = "OrderedDict" /\ FlagOff =>
        /\ \A p \in Perms(object_to_hash.entries) \ {object_to_hash.entries} :
              make_hash([object_to_hash EXCEPT !.entries = p], kwargs) # result
        /\ make_hash(PyDict(object_to_hash.entries), kwargs) # result

\* C5, amended: with the flag absent or false an ordered mapping is hashed
\* under 'odict(' with its entries in insertion order; the same entries in
\* another insertion order have another digest whenever some position then
\* holds an entry with other key or value digests, and the unordered
\* mapping with the same entries always has another digest.
C5_OrderedDictInsertionOrder ==
    pc = "done" /\ object_to_hash.t = "OrderedDict" /\ FlagOff =>
        /\ hashes = <<_single_digest("odict(", <<>>)>>
                    \o Flatten([i \in DOMAIN object_to_hash.entries |->
                                   DigestsOf(object_to_hash.entries[i][1])
                                   \o DigestsOf(object_to_hash.entries[i][2])])
                    \o <<_END_DIGEST>>
        /\ \A p \in Perms(object_to_hash.entries) :
              (\E i \in DOMAIN p :
                  \/ DigestsOf(p[i][1]) # DigestsOf(object_to_hash.entries[i][1])
                  \/ DigestsOf(p[i][2]) # DigestsOf(object_to_hash.entries[i][2]))
              => make_hash([object_to_hash EXCEPT !.entries = p], kwargs) # result
        /\ make_hash(PyDict(object_to_hash.entries), kwargs) # result

\* A call without the flag has hashed an ordered mapping of two entries
\* whose keys have different digests.
C5_Witness ==
    /\ pc = "done"
    /\ object_to_hash.t = "OrderedDict"
    /\ FlagOff
    /\ Len(object_to_hash.entries) >= 2
    /\ DigestsOf(object_to_hash.entries[1][1]) # DigestsOf(object_to_hash.entries[2][1])

\* C6: two scalars whose leaf tags differ never have the same digest; the
\* text "1", the integer 1, the real 1.0 and True are pairwise different
\* although the first three have the same payload bytes.
C6_TypeTagSeparation ==
    pc = "done" /\ object_to_hash \in Scalars =>
        /\ \A w \in Scalars :
              DigestsOf(w)[1].person # hashes[1].person
              => DigestsOf(w)[1] # hashes[1] /\ make_hash(w, kwargs) # result
        /\ \A w \in {Str1, Int1, Float1, PyBool(TRUE)} \ {object_to_hash} :
              object_to_hash \in {Str1, Int1, Float1, PyBool(TRUE)}
              => make_hash(w, kwargs) # result

\* A call has hashed the integer 1, whose payload is the payload of the
\* text "1" and of the real 1.0.
C6_Witness ==
    /\ pc = "done"
    /\ object_to_hash = Int1
    /\ DigestsOf(Str1)[1].data = hashes[1].data
    /\ DigestsOf(Float1)[1].data = hashes[1].data
    /\ make_hash(Str1, kwargs) # result

\* C7: a value hashes as the value obtained by replacing the texts in it,
\* at any position, by the byte strings of their UTF-8 encodings.
C7_TextBytesSameHash ==
    Terminated /\ WellFormed(EncodeText(object_to_hash)) =>
        make_hash(EncodeText(object_to_hash), kwargs) = result

\* A call has hashed a set or a mapping holding, at a nested position, a
\* text whose encoding is not its code points.
C7_Witness ==
    /\ pc = "done"
    /\ object_to_hash.t \in {"set", "dict"}
    /\ EncodeText(object_to_hash) # object_to_hash
    /\ hash_text_raw(StrE, kwargs).digests[1] \notin Range(hashes)
    /\ _single_digest("str", <<195, 169>>) \in Range(hashes)

C9_UnhashableReported ==
    ContainsUnsupported(object_to_hash) =>
        /\ pc \in {"call", "raised"}
        /\ pc = "call" => _make_hash(object_to_hash, kwargs).exc = "ValueError"
        /\ pc = "raised" => result = [exc |-> "ValueError"]
        /\ hashes = <<>> /\ final_hash = <<>>

\* A call has raised on an ordered mapping that holds the unsupported
\* value inside a key or a value, not as the key or value itself.
C9_Witness ==
    /\ pc = "raised"
    /\ object_to_hash.t = "OrderedDict"
    /\ \E i \in DOMAIN object_to_hash.entries :
          \E k \in 1..2 :
              /\ object_to_hash.entries[i][k] # Unsupported
              /\ ContainsUnsupported(object_to_hash.entries[i][k])

\* C10: a folder hashes the same under any name of its own, and one edit
\* of a contained file at any depth (a new name, other bytes) changes the
\* digest; the files meant are those the call hashes, which without an
\* ignore-list is every file.
C10_FolderContentOnly ==
    pc = "done" /\ object_to_hash.t = "Folder" =>
        /\ \A r \in RootNames :
              make_hash([object_to_hash EXCEPT !.name = r], kwargs) = result
        /\ \A l \in EntryEdits(object_to_hash.entries,
                               KwGet(kwargs, "ignored_folder_content", <<>>)) :
              make_hash([object_to_hash EXCEPT !.entries = l], kwargs) # result

\* A call without options has hashed a folder with a file in a subfolder.
C10_Witness ==
    /\ pc = "done"
    /\ object_to_hash.t = "Folder"
    /\ kwargs = NoKwargs
    /\ \E i \in DOMAIN object_to_hash.entries :
          /\ ~object_to_hash.entries[i].isfile
          /\ object_to_hash.entries[i].entries # <<>>
    /\ Cardinality(EntryEdits(object_to_hash.entries, <<>>)) >= 2

(***************************************************************************)
(* Folder trees: ignored names and failing entries.                        *)
(***************************************************************************)
\* The ignore-list of the call.
IgnoreList == KwGet(kwargs, "ignored_folder_content", <<>>)

\* The listing without the entries named in ignored, at every depth.
RECURSIVE Prune(_, _)
Prune(entries, ignored) ==
    LET kept == SelectSeq(entries, LAMBDA e : e.name \notin Range(ignored))
    IN  [i \in DOMAIN kept |->
            IF kept[i].isfile THEN kept[i]
            ELSE [kept[i] EXCEPT !.entries = Prune(@, ignored)]]

\* The listings obtained from entries by adding one entry of new to one
\* directory that does not hold its name: the root, or a subfolder at any
\* depth that is not named in skipped.
RECURSIVE Additions(_, _, _)
Additions(entries, new, skipped) ==
    {Append(entries, e) :
        e \in {x \in new : \A j \in DOMAIN entries : entries[j].name # x.name}}
    \cup UNION {
        IF entries[i].isfile \/ entries[i].name \in Range(skipped) THEN {}
        ELSE {[entries EXCEPT ![i].entries = l] :
                 l \in Additions(entries[i].entries, new, skipped)}
        : i \in DOMAIN entries}

\* Entries with an ignored name: a file, a subfolder with a file in it, a
\* file that cannot be read and a subfolder that cannot be listed.
IgnoredEntries(ignored) ==
    UNION {{File(n, ContentX), Dir(n, <<File(NameA, ContentY)>>),
            UnreadableFile(n), UnlistableDir(n)} : n \in Range(ignored)}

\* Files whose name is not ignored.
OtherFiles(ignored) ==
    {File(n, ContentX) : n \in (Names \cup {NameC}) \ Range(ignored)}

\* Whether the walk of the directory meets an entry it cannot read or
\* list, or cannot list the directory itself.
RECURSIVE MeetsFailure(_, _)
MeetsFailure(subfolder, ignored) ==
    \/ ListingFails(subfolder)
    \/ \E i \in DOMAIN subfolder.entries :
          LET e == subfolder.entries[i]
          IN  /\ e.name \notin Range(ignored)
              /\ IF e.isfile THEN ReadFails(e) ELSE MeetsFailure(e, ignored)

\* Whether the walk of v under the options kw meets such a failure in a
\* folder. An ordered mapping hashed as unordered hands no options on
\* (hashing.py:222), so the folders below it are walked without ignore-list.
RECURSIVE FailureMet(_, _)
FailureMet(v, kw) ==
    CASE v.t = "Folder" -> MeetsFailure(v, KwGet(kw, "ignored_folder_content", <<>>))
      [] v.t \in {"list", "tuple", "set", "frozenset"} ->
            \E i \in DOMAIN v.items : FailureMet(v.items[i], kw)
      [] v.t = "dict" ->
            \E i \in DOMAIN v.entries : \E k \in 1..2 : FailureMet(v.entries[i][k], kw)
      [] v.t = "OrderedDict" ->
            \E i \in DOMAIN v.entries : \E k \in 1..2 :
                FailureMet(v.entries[i][k],
                           IF KwGet(kw, "odict_as_unordered", FALSE) THEN NoKwargs ELSE kw)
      [] OTHER -> FALSE

\* C11: in a folder hashed with an ignore-list the entries with an ignored
\* name contribute no leaf digest, files and subfolders (with all they
\* hold) alike, in the root and in every subfolder: the leaf digests are
\* those of the tree without them; adding an entry with an ignored name
\* anywhere in the tree leaves the digest as it is, and adding a file with
\* another name to a directory of the tree changes it.
C11_IgnoredContributeNothing ==
    pc = "done" /\ object_to_hash.t = "Folder" =>
        /\ hashes = _make_hash([object_to_hash EXCEPT
                                   !.entries = Prune(@, IgnoreList)], NoKwargs).digests
        /\ \A l \in Additions(object_to_hash.entries, IgnoredEntries(IgnoreList), <<>>) :
              make_hash([object_to_hash EXCEPT !.entries = l], kwargs) = result
        /\ \A l \in Additions(object_to_hash.entries, OtherFiles(IgnoreList), IgnoreList) :
              make_hash([object_to_hash EXCEPT !.entries = l], kwargs) # result

\* A call with an ignore-list has hashed a folder that holds an ignored
\* subfolder with a file in it and an ignored file inside another subfolder.
C11_Witness ==
    /\ pc = "done"
    /\ object_to_hash.t = "Folder"
    /\ IgnoreList = <<NameB>>
    /\ \E i, j \in DOMAIN object_to_hash.entries :
          /\ object_to_hash.entries[i] = Dir(NameB, <<File(NameA, ContentX)>>)
          /\ ~object_to_hash.entries[j].isfile
          /\ object_to_hash.entries[j].name = NameA
          /\ \E k \in DOMAIN object_to_hash.entries[j].entries :
                object_to_hash.entries[j].entries[k].name = NameB

\* C12: a call whose folder walk meets a read or listing failure, on an
\* entry at any depth, ends in the error: it never holds a list of leaf
\* digests, feeds no accumulator and returns the exception and no digest.
C12_FailureNoPartialDigest ==
    FailureMet(object_to_hash, kwargs) /\ ~ContainsUnsupported(object_to_hash) =>
        /\ pc \in {"call", "raised"}
        /\ hashes = <<>> /\ final_hash = <<>>
        /\ pc = "raised" => result \in {[exc |-> "IOError"], [exc |-> "OSError"]}

\* A call has raised on a folder in which entries that come before the
\* failing one, a file of a subfolder, have leaf digests.
C12_Witness ==
    /\ pc = "raised"
    /\ object_to_hash.t = "Folder"
    /\ ~ListingFails(object_to_hash)
    /\ \E i \in DOMAIN object_to_hash.entries :
          /\ ~object_to_hash.entries[i].isfile
          /\ \E k \in DOMAIN object_to_hash.entries[i].entries :
                ReadFails(object_to_hash.entries[i].entries[k])
    /\ Len(folder_digests_partial(object_to_hash, IgnoreList).digests) >= 3

C16_OdictAsUnordered ==
    Terminated /\ object_to_hash.t = "OrderedDict" /\ ~FlagOff =>
        /\ make_hash(PyDict(object_to_hash.entries), kwargs) = result
        /\ \A p \in Perms(object_to_hash.entries) :
              make_hash([object_to_hash EXCEPT !.entries = p], kwargs) = result

\* The tag of the rule a supported value is encoded by.
RuleTag(v) ==
    CASE v.t = "bool" -> "bool"
      [] v.t = "int" -> "int"
      [] v.t = "float" -> "float"
      [] v.t = "complex" -> "complex"
      [] v.t \in {"str", "bytes"} -> "str"
      [] v.t = "NoneType" -> "none"
      [] v.t = "datetime" -> "datetime"
      [] v.t = "UUID" -> "uuid"
      [] v.t \in {"list", "tuple"} -> "list("
      [] v.t \in {"set", "frozenset"} -> "set("
      [] v.t = "dict" -> "dict("
      [] v.t = "OrderedDict" -> "odict("
      [] v.t = "Folder" -> "folder"

\* C17: a value is encoded by the rule of its most specific category: a
\* boolean under 'bool', an integer under 'int', a real under 'float', a
\* text or byte string as one 'str' leaf, an ordered mapping (flag off)
\* under 'odict(', and so the value itself as every element of a sequence.
C17_MostSpecificEncoder ==
    pc = "done" /\ (object_to_hash.t = "OrderedDict" => FlagOff) =>
        /\ hashes[1].person = RuleTag(object_to_hash)
        /\ object_to_hash \in Scalars => Len(hashes) = 1
        /\ object_to_hash.t \in {"list", "tuple"} =>
              \A i \in DOMAIN object_to_hash.items :
                  LET x == object_to_hash.items[i]
                  IN  /\ (x.t = "OrderedDict" => FlagOff)
                         => DigestsOf(x)[1].person = RuleTag(x)
                      /\ x \in Scalars => Len(DigestsOf(x)) = 1

\* A call without the flag has hashed an ordered mapping, which is a
\* mapping too, under 'odict('.
C17_Witness ==
    /\ pc = "done"
    /\ object_to_hash.t = "OrderedDict"
    /\ FlagOff
    /\ "Mapping" \in Range(Mro(object_to_hash.t))
    /\ hashes[1] = _single_digest("odict(", <<>>)

\* C18: the accumulator is fed the leaf digests of the value, each once
\* and in the order of the walk, and then the empty closing digest once,
\* as the last input; nothing is fed before the walk has returned or after
\* the closing digest, and the result is read from the closed accumulator.
C18_CombinationProtocol ==
    /\ [](/\ pc \in {"call", "walked", "raised"} => final_hash = <<>>
          /\ pc \notin {"call", "raised"} =>
                /\ hashes = _make_hash(object_to_hash, kwargs).digests
                /\ EmptyLeafDigest \notin Range(hashes)
          /\ pc = "loop" => final_hash = SubSeq(hashes, 1, fed)
          /\ pc \in {"closed", "done"} => final_hash = hashes \o <<EmptyLeafDigest>>
          /\ pc \notin {"done", "raised"} => result = NoResult
          /\ pc = "done" => result = [exc |-> "", hexdigest |-> hexdigest(final_hash)])
    /\ [][/\ pc \in {"closed", "done", "raised"} => final_hash' = final_hash
          /\ final_hash' # final_hash =>
                \E d \in Range(hashes) \cup {EmptyLeafDigest} :
                    final_hash' = Append(final_hash, d)]_vars

\* A call has returned after feeding four or more leaf digests that are
\* not all the same.
C18_Witness ==
    /\ pc = "done"
    /\ Len(hashes) >= 4
    /\ hashes[2] # hashes[3]
    /\ Len(final_hash) = Len(hashes) + 1

(***************************************************************************)
(* Brackets in a list of leaf digests.                                     *)
(***************************************************************************)
\* The tags of the open markers of the containers that are closed.
OpenTags == {"list(", "set(", "dict(", "odict(", "dir("}

\* The change of the nesting depth a digest makes, the digests with a tag
\* in opens counted as open markers.
Delta(d, opens) ==
    IF d = _END_DIGEST THEN -1 ELSE IF d.person \in opens THEN 1 ELSE 0

NestingDepth(ds, opens) == SumSeq([i \in DOMAIN ds |-> Delta(ds[i], opens)])

\* Whether the markers of ds are balanced and properly nested.
ProperlyNested(ds, opens) ==
    /\ \A k \in 0..Len(ds) : NestingDepth(SubSeq(ds, 1, k), opens) >= 0
    /\ NestingDepth(ds, opens) = 0

\* Whether ds is one bracket: an open marker with the tag, its content,
\* properly nested, and the close marker that matches it.
OneBracket(ds, tag, opens) ==
    /\ Len(ds) >= 2
    /\ ds[1].person = tag
    /\ ds[Len(ds)] = _END_DIGEST
    /\ ProperlyNested(SubSeq(ds, 2, Len(ds) - 1), opens)

\* The tag a container is opened with under the call's options.
OpenTagOf(v) ==
    IF v.t = "OrderedDict" /\ ~FlagOff THEN "dict(" ELSE RuleTag(v)

\* Whether v is a container: a value hashed into more than one leaf.
IsContainer(v) == v.t \in {"list", "tuple", "set", "frozenset", "dict", "OrderedDict", "Folder"}

\* C19 as stated: the leaf digests of every container, a folder included,
\* are one run from its open marker to the close marker, and the markers
\* are balanced and properly nested, 'folder' counted as an open marker.
C19_AllContainersBracketed ==
    pc = "done" /\ IsContainer(object_to_hash) =>
        /\ OneBracket(hashes, OpenTagOf(object_to_hash), OpenTags \cup {"folder"})
        /\ ProperlyNested(hashes, OpenTags \cup {"folder"})

\* C19, amended: the leaf digests of a sequence, a set, a mapping, an
\* ordered mapping and a subfolder are one run from its open marker to
\* the close marker that matches it; a folder passed to the encoder gives
\* the 'folder' leaf followed by the leaves of its entries, with no close
\* marker of its own; the open markers 'list(', 'set(', 'dict(', 'odict('
\* and 'dir(' and the close markers are balanced and properly nested over
\* the whole list, and so in the run of every element of a sequence.
C19_ContainersBracketed ==
    pc = "done" /\ IsContainer(object_to_hash) =>
        /\ ProperlyNested(hashes, OpenTags)
        /\ object_to_hash.t # "Folder" =>
              OneBracket(hashes, OpenTagOf(object_to_hash), OpenTags)
        /\ object_to_hash.t = "Folder" =>
              /\ hashes[1] = _single_digest("folder", <<>>)
              /\ ProperlyNested(Tail(hashes), OpenTags)
              /\ \A i \in DOMAIN hashes :
                    hashes[i].person = "dir(" =>
                        \E k \in (i + 1)..Len(hashes) :
                            OneBracket(SubSeq(hashes, i, k), "dir(", OpenTags)
        /\ object_to_hash.t \in {"list", "tuple"} =>
              \A i \in DOMAIN object_to_hash.items :
                  LET x == object_to_hash.items[i]
                  IN  /\ ProperlyNested(DigestsOf(x), OpenTags)
                      /\ IsContainer(x) /\ x.t # "Folder" =>
                            OneBracket(DigestsOf(x), OpenTagOf(x), OpenTags)

\* A call has hashed a folder with a file and a subfolder that holds a file.
C19_Witness ==
    /\ pc = "done"
    /\ object_to_hash.t = "Folder"
    /\ \E i \in DOMAIN hashes :
          /\ hashes[i].person = "dir("
          /\ i + 1 < Len(hashes)
          /\ hashes[i + 1].person = "fname"
    /\ hashes[Len(hashes)].person = "fcontent"

\* m with the values of its i-th and j-th entry exchanged.
Exchanged(m, i, j) ==
    [m EXCEPT !.entries = [@ EXCEPT ![i] = <<m.entries[i][1], m.entries[j][2]>>,
                                    ![j] = <<m.entries[j][1], m.entries[i][2]>>]]

\* Whether the leaf digests of the mapping are, between the markers, the
\* digests of each key followed by those of its own value, the entries in
\* some order.
KeysBeforeOwnValues ==
    \E p \in Perms(object_to_hash.entries) :
        hashes = <<_single_digest("dict(", <<>>)>>
                 \o Flatten([i \in DOMAIN p |-> DigestsOf(p[i][1]) \o DigestsOf(p[i][2])])
                 \o <<_END_DIGEST>>

\* C20 as stated: in an unordered mapping each key's digests are followed
\* by the digests of its own value, and exchanging the values of two keys
\* (two values that are not the same) changes the digest.
C20_ExchangeChangesDigest ==
    pc = "done" /\ object_to_hash.t = "dict" =>
        /\ KeysBeforeOwnValues
        /\ \A i, j \in DOMAIN object_to_hash.entries :
              object_to_hash.entries[i][2] # object_to_hash.entries[j][2]
              => make_hash(Exchanged(object_to_hash, i, j), kwargs) # result

\* C20, amended: in an unordered mapping each key's digests are followed
\* by the digests of its own value, and exchanging the values of two keys
\* changes the digest whenever the two values have different digests.
C20_KeyValueAdjacent ==
    pc = "done" /\ object_to_hash.t = "dict" =>
        /\ KeysBeforeOwnValues
        /\ \A i, j \in DOMAIN object_to_hash.entries :
              DigestsOf(object_to_hash.entries[i][2]) # DigestsOf(object_to_hash.entries[j][2])
              => make_hash(Exchanged(object_to_hash, i, j), kwargs) # result

\* A call has hashed a mapping of two entries that the sort by key digest
\* has put in the other order, with values of different digests.
C20_Witness ==
    /\ pc = "done"
    /\ object_to_hash.t = "dict"
    /\ Len(object_to_hash.entries) = 2
    /\ DigestsOf(object_to_hash.entries[1][2]) # DigestsOf(object_to_hash.entries[2][2])
    /\ hashes[2] = DigestsOf(object_to_hash.entries[2][1])[1]
    /\ hashes[2] # DigestsOf(object_to_hash.entries[1][1])[1]

\* C21: a folder has the same leaf digests, and the same outcome, in every
\* order in which the store lists the entries of its directories, at every
\* level of the tree.
C21_ListingOrderIndependent ==
    Terminated /\ object_to_hash.t = "Folder" =>
        \A l \in ListingOrders(object_to_hash.entries) :
            /\ _make_hash([object_to_hash EXCEPT !.entries = l], kwargs)
                  = _make_hash(object_to_hash, kwargs)
            /\ make_hash([object_to_hash EXCEPT !.entries = l], kwargs) = result
            /\ pc = "done" =>
                  hashes = _make_hash([object_to_hash EXCEPT !.entries = l], kwargs).digests

\* A call has hashed a folder whose root and whose subfolder are both
\* listed in another order than that of the names.
C21_Witness ==
    /\ pc = "done"
    /\ object_to_hash.t = "Folder"
    /\ object_to_hash.entries # SortedByName(object_to_hash.entries)
    /\ \E i \in DOMAIN object_to_hash.entries :
          /\ ~object_to_hash.entries[i].isfile
          /\ Len(object_to_hash.entries[i].entries) = 2
          /\ object_to_hash.entries[i].entries
                # SortedByName(object_to_hash.entries[i].entries)
    /\ hashes # folder_digests_unsorted(object_to_hash, IgnoreList).digests

\* The leaves of the entries of a directory as the layout states them: in
\* the order of the names, two leaves for a file, and for a subfolder its
\* 'dir(' leaf, the leaves of its entries and the close marker.
RECURSIVE TreeLeaves(_)
TreeLeaves(entries) ==
    LET s == SortedByName(entries)
    IN  Flatten([i \in DOMAIN s |->
            IF s[i].isfile
            THEN <<[person |-> "fname", data |-> encode_utf8(s[i].name), last_node |-> FALSE],
                   [person |-> "fcontent", data |-> s[i].content, last_node |-> FALSE]>>
            ELSE <<[person |-> "dir(", data |-> encode_utf8(s[i].name), last_node |-> FALSE]>>
                 \o TreeLeaves(s[i].entries)
                 \o <<[person |-> ")", data |-> <<>>, last_node |-> FALSE]>>])

\* The number of files and of subfolders in a tree, at all depths.
RECURSIVE CountEntries(_, _)
CountEntries(entries, files) ==
    SumSeq([i \in DOMAIN entries |->
        IF entries[i].isfile THEN (IF files THEN 1 ELSE 0)
        ELSE (IF files THEN 0 ELSE 1) + CountEntries(entries[i].entries, files)])

\* The listings obtained from entries by putting an empty subfolder in the
\* place of one file the walk visits, at any depth.
RECURSIVE FileToDir(_, _)
FileToDir(entries, ignored) ==
    UNION {
        IF entries[i].name \in Range(ignored) THEN {}
        ELSE IF entries[i].isfile
        THEN {[entries EXCEPT ![i] = Dir(entries[i].name, <<>>)]}
        ELSE {[entries EXCEPT ![i].entries = l] :
                 l \in FileToDir(entries[i].entries, ignored)}
        : i \in DOMAIN entries}

\* C22: the leaves of a folder are the 'folder' leaf and then, for the
\* entries that are not ignored, in the order of their names, 'fname' over
\* the name and 'fcontent' over the bytes of a file, and 'dir(' over the
\* name, the leaves of its entries and the close marker of a subfolder; so
\* adding an empty subfolder changes the digest, and so does a subfolder in
\* the place of a file of the same name.
C22_FolderLayout ==
    pc = "done" /\ object_to_hash.t = "Folder" =>
        LET kept == Prune(object_to_hash.entries, IgnoreList)
        IN  /\ hashes = <<[person |-> "folder", data |-> <<>>, last_node |-> FALSE]>>
                        \o TreeLeaves(kept)
            /\ Len(hashes) = 1 + 2 * CountEntries(kept, TRUE) + 2 * CountEntries(kept, FALSE)
            /\ \A l \in Additions(object_to_hash.entries,
                                  {Dir(n, <<>>) : n \in (Names \cup {NameC}) \ Range(IgnoreList)},
                                  IgnoreList) :
                  make_hash([object_to_hash EXCEPT !.entries = l], kwargs) # result
            /\ \A l \in FileToDir(object_to_hash.entries, IgnoreList) :
                  make_hash([object_to_hash EXCEPT !.entries = l], kwargs) # result

\* A call has hashed a folder that holds a file and an empty subfolder.
C22_Witness ==
    /\ pc = "done"
    /\ object_to_hash.t = "Folder"
    /\ IgnoreList = <<>>
    /\ \E i, j \in DOMAIN object_to_hash.entries :
          /\ object_to_hash.entries[i].isfile
          /\ object_to_hash.entries[j] = Dir(NameB, <<>>)
    /\ Len(hashes) = 5

\* The instant of a datetime in seconds since the epoch, a datetime
\* without zone read in UTC.
InstantOf(d) == IF d.aware THEN d.wall - d.utcoffset ELSE d.wall

\* C23: a datetime without zone hashes as the datetime with the same
\* wall-clock time in UTC; two datetimes hash identically exactly when
\* they are the same instant, whatever their zones; and a datetime never
\* hashes as the real number of its epoch seconds, whose payload it has.
C23_TimestampNormalized ==
    pc = "done" /\ object_to_hash.t = "datetime" =>
        /\ ~object_to_hash.aware =>
              make_hash([object_to_hash EXCEPT !.aware = TRUE, !.utcoffset = 0], kwargs)
                 = result
        /\ \A w \in {x \in Scalars : x.t = "datetime"} :
              (make_hash(w, kwargs) = result) <=> (InstantOf(w) = InstantOf(object_to_hash))
        /\ \A w \in {x \in Scalars : x.t = "float"} : make_hash(w, kwargs) # result
        /\ InstantOf(object_to_hash) = 86400 =>
              /\ hashes[1].data = DigestsOf(EpochSeconds)[1].data
              /\ hashes[1].person = "datetime"
              /\ DigestsOf(EpochSeconds)[1].person = "float"

\* A call has hashed a datetime at -05:00 that is the instant of the
\* datetime without zone and not its wall-clock time.
C23_Witness ==
    /\ pc = "done"
    /\ object_to_hash.t = "datetime"
    /\ object_to_hash.aware
    /\ object_to_hash.utcoffset < 0
    /\ InstantOf(object_to_hash) = InstantOf(NaiveDatetime)
    /\ object_to_hash.wall # NaiveDatetime.wall
    /\ make_hash(NaiveDatetime, kwargs) = result

\* C24: a complex number is one 'complex' leaf over the rendering of its
\* real part, '!' and the rendering of its imaginary part; no rendering
\* holds a '!'; two complex numbers hash identically exactly when the
\* renderings of both parts coincide; and a complex number never hashes
\* as a real number, the one equal to its real part included.
C24_ComplexEncoding ==
    pc = "done" /\ object_to_hash.t = "complex" =>
        LET re(z) == float_to_text(z.real, AIIDA_FLOAT_PRECISION)
            im(z) == float_to_text(z.imag, AIIDA_FLOAT_PRECISION)
        IN  /\ hashes = <<[person |-> "complex",
                           data |-> re(object_to_hash) \o <<33>> \o im(object_to_hash),
                           last_node |-> FALSE]>>
            /\ 33 \notin Range(re(object_to_hash)) \cup Range(im(object_to_hash))
            /\ \A w \in {x \in Scalars : x.t = "complex"} :
                  (make_hash(w, kwargs) = result)
                  <=> (re(w) = re(object_to_hash) /\ im(w) = im(object_to_hash))
            /\ \A w \in {x \in Scalars : x.t = "float"} : make_hash(w, kwargs) # result
            /\ make_hash(object_to_hash.real, kwargs) # result

\* A call has hashed the complex number 1+15j, whose renderings written
\* one after the other are those of 11+5j.
C24_Witness ==
    /\ pc = "done"
    /\ object_to_hash = PyComplex(Float1, Float15)
    /\ hash_complex_undelimited(object_to_hash, kwargs)
          = hash_complex_undelimited(PyComplex(Float11, Float5), kwargs)
    /\ make_hash(PyComplex(Float11, Float5), kwargs) # result

\* The values nested directly inside a container: the elements of a
\* sequence or a set, the keys and the values of a mapping.
ChildrenOf(v) ==
    IF "items" \in DOMAIN v THEN v.items
    ELSE IF v.t \in {"dict", "OrderedDict"}
    THEN [i \in 1..(2 * Len(v.entries)) |-> v.entries[(i + 1) \div 2][2 - (i % 2)]]
    ELSE <<>>

\* Whether s occurs in t as a run of consecutive elements.
IsInfix(s, t) == \E k \in 0..(Len(t) - Len(s)) : SubSeq(t, k + 1, k + Len(s)) = s

\* C25: the options of the call reach every nesting level: between the
\* brackets of a sequence, a set or a mapping (ordered or not, with the
\* flag on or off) stand, for each nested value, the very leaf digests the
\* value has when hashed at top level with the same options, and nothing
\* else; and such a call fails only with the failure one of its nested
\* values has at top level with the same options.
C25_OptionsReachNested ==
    LET cs == ChildrenOf(object_to_hash)
    IN  /\ pc = "done" /\ object_to_hash.t # "Folder" /\ IsContainer(object_to_hash) =>
              /\ \A i \in DOMAIN cs :
                    /\ _make_hash(cs[i], kwargs).exc = ""
                    /\ IsInfix(DigestsOf(cs[i]), SubSeq(hashes, 2, Len(hashes) - 1))
              /\ Len(hashes) = 2 + SumSeq([i \in DOMAIN cs |-> Len(DigestsOf(cs[i]))])
        /\ pc = "raised" /\ object_to_hash.t # "Folder" /\ IsContainer(object_to_hash) =>
              \E i \in DOMAIN cs : _make_hash(cs[i], kwargs).exc = result.exc

\* Whether two listings, sorted by name, are the same directory tree.
RECURSIVE SameTree(_, _)
SameTree(a, b) ==
    /\ Len(a) = Len(b)
    /\ \A i \in DOMAIN a :
          /\ a[i].name = b[i].name
          /\ a[i].isfile = b[i].isfile
          /\ IF a[i].isfile THEN a[i].content = b[i].content
             ELSE SameTree(SortedByName(a[i].entries), SortedByName(b[i].entries))

\* The category a supported value is hashed in under the options kw.
Category(v, kw) ==
    IF v.t = "OrderedDict" /\ KwGet(kw, "odict_as_unordered", FALSE) THEN "dict("
    ELSE RuleTag(v)

\* Canonical equality under the options kw: the same category and, for a
\* scalar, the same payload; for a sequence or an ordered mapping, the
\* same number of canonically equal elements or entries in the same order;
\* for a set or an unordered mapping, in some order; for a folder, the same
\* tree of names and bytes outside the ignore-list.
RECURSIVE CanonEq(_, _, _)
CanonEq(a, b, kw) ==
    LET c == Category(a, kw)
    IN  /\ Category(b, kw) = c
        /\ CASE c = "list(" ->
                   /\ Len(a.items) = Len(b.items)
                   /\ \A i \in DOMAIN a.items : CanonEq(a.items[i], b.items[i], kw)
             [] c = "set(" ->
                   /\ Len(a.items) = Len(b.items)
                   /\ \E p \in Perms(b.items) :
                         \A i \in DOMAIN a.items : CanonEq(a.items[i], p[i], kw)
             [] c = "dict(" ->
                   /\ Len(a.entries) = Len(b.entries)
                   /\ \E p \in Perms(b.entries) :
                         \A i \in DOMAIN a.entries :
                             /\ CanonEq(a.entries[i][1], p[i][1], kw)
                             /\ CanonEq(a.entries[i][2], p[i][2], kw)
             [] c = "odict(" ->
                   /\ Len(a.entries) = Len(b.entries)
                   /\ \A i \in DOMAIN a.entries :
                         /\ CanonEq(a.entries[i][1], b.entries[i][1], kw)
                         /\ CanonEq(a.entries[i][2], b.entries[i][2], kw)
             [] c = "folder" ->
                   LET ignored == KwGet(kw, "ignored_folder_content", <<>>)
                   IN  SameTree(SortedByName(Prune(a.entries, ignored)),
                                SortedByName(Prune(b.entries, ignored)))
             [] OTHER -> _make_hash(a, kw).digests = _make_hash(b, kw).digests

\* C26: the list of leaf digests encodes the structure without ambiguity:
\* a value whose walk returns the leaf digests of another value is
\* canonically equal to it (same categories, same payloads, same nesting).
C26_UnambiguousEncoding ==
    pc = "done" =>
        \A w \in EncodingCases :
            _make_hash(w, kwargs).exc = "" /\ DigestsOf(w) = hashes
                => CanonEq(object_to_hash, w, kwargs)

\* The call has hashed [[1, 2]]: [(1, 2)] has the same leaves and is
\* canonically equal, [[1], [2]] and [1, 2] have other leaves; and the call
\* has hashed a list of two folders, which has other leaves than the list
\* of one folder with the entries of both.
C26_Witness ==
    /\ pc = "done"
    /\ \/ /\ object_to_hash = PyList(<<PyList(<<Int1, Int2>>)>>)
          /\ DigestsOf(PyList(<<Tuple12>>)) = hashes
          /\ DigestsOf(PyList(<<PyList(<<Int1>>), PyList(<<Int2>>)>>)) # hashes
          /\ DigestsOf(PyList(<<Int1, Int2>>)) # hashes
       \/ /\ object_to_hash =
                PyList(<<PyFolder(<<100, 49>>, <<File(NameA, ContentX)>>),
                         PyFolder(<<100, 49>>, <<File(NameB, ContentX)>>)>>)
          /\ DigestsOf(PyList(<<PyFolder(<<100, 49>>,
                 <<File(NameA, ContentX), File(NameB, ContentX)>>)>>)) # hashes

\* The empty values: null, the empty text, the empty sequences, sets and
\* mappings, and the folders with nothing in them.
Empties ==
    {PyNone, PyStr(<<>>), PyList(<<>>), PyTuple(<<>>), PySet(<<>>), PyFrozenSet(<<>>),
     PyDict(<<>>), PyOrderedDict(<<>>)}
    \cup {PyFolder(r, <<>>) : r \in RootNames}

\* The null value has, under every options record, the single 'none' leaf
\* with the empty payload and so one digest.
NoneConstant ==
    Terminated /\ object_to_hash = PyNone =>
        /\ pc = "done"
        /\ hashes = <<[person |-> "none", data |-> <<>>, last_node |-> FALSE]>>
        /\ \A kw \in Kwargs : make_hash(PyNone, kw) = result

\* C27 as stated: hash(None) is a constant, and the empty values of
\* different categories (null, text, sequence, set, unordered mapping,
\* ordered mapping, folder) have pairwise different digests, whatever the
\* options.
C27_EmptiesDifferUnderEveryOption ==
    /\ NoneConstant
    /\ pc = "done" /\ object_to_hash \in Empties =>
          \A e \in Empties :
              RuleTag(e) # RuleTag(object_to_hash) => make_hash(e, kwargs) # result

\* C27: hash(None) is a constant, the single 'none' leaf with the empty
\* payload under every options record; the empty values of different
\* categories have pairwise different digests, the ordered mapping being
\* of the category of the unordered one when odict_as_unordered is set:
\* then the two empty mappings have the same digest.
C27_EmptiesDiffer ==
    /\ NoneConstant
    /\ pc = "done" /\ object_to_hash \in Empties =>
          \A e \in Empties :
              /\ Category(e, kwargs) # Category(object_to_hash, kwargs)
                    => make_hash(e, kwargs) # result
              /\ Category(e, kwargs) = Category(object_to_hash, kwargs)
                    => make_hash(e, kwargs) = result

\* A call without the flag has hashed the empty ordered mapping: its
\* digest is not that of the empty unordered mapping, nor that of null.
C27_Witness ==
    /\ pc = "done"
    /\ object_to_hash = PyOrderedDict(<<>>)
    /\ FlagOff
    /\ kwargs # NoKwargs
    /\ make_hash(PyDict(<<>>), kwargs) # result
    /\ make_hash(PyNone, kwargs) # result
    /\ make_hash(PyNone, kwargs) = make_hash(PyNone, NoKwargs)

\* The container of the other concrete type of the same category: the
\* tuple of a list, the list of a tuple, the frozenset of a set, the set of
\* a frozenset, with the same members in the same iteration order.
OtherRepresentation(v) ==
    CASE v.t = "list" -> [v EXCEPT !.t = "tuple"]
      [] v.t = "tuple" -> [v EXCEPT !.t = "list"]
      [] v.t = "set" -> [v EXCEPT !.t = "frozenset"]
      [] v.t = "frozenset" -> [v EXCEPT !.t = "set"]
      [] OTHER -> v

\* C28: a list and a tuple with the same elements in the same order have
\* the same outcome, both under 'list(', and so have a set and a frozenset
\* with the same members, both under 'set('; the same holds for the
\* elements of a sequence.
C28_RepresentationIndependent ==
    Terminated /\ object_to_hash.t \in {"list", "tuple", "set", "frozenset"} =>
        /\ make_hash(OtherRepresentation(object_to_hash), kwargs) = result
        /\ pc = "done" =>
              /\ hashes[1].person =
                    (IF object_to_hash.t \in {"list", "tuple"} THEN "list(" ELSE "set(")
              /\ DigestsOf(OtherRepresentation(object_to_hash)) = hashes
        /\ object_to_hash.t \in {"list", "tuple"} =>
              \A i \in DOMAIN object_to_hash.items :
                  make_hash([object_to_hash EXCEPT
                                !.items[i] = OtherRepresentation(@)], kwargs) = result

\* A call has hashed a tuple of two elements under 'list(', with the
\* leaves of the list of the same elements.
C28_Witness ==
    /\ pc = "done"
    /\ object_to_hash.t = "tuple"
    /\ Len(object_to_hash.items) = 2
    /\ hashes[1].person = "list("
    /\ DigestsOf(PyList(object_to_hash.items)) = hashes
    /\ PyList(object_to_hash.items) # object_to_hash

\* Whether every directory of the folders of v can be listed and every
\* file read.
Readable(v) == ~FailureMet(v, NoKwargs)

\* The number of values in v: v itself and the values nested in it at any
\* depth (the entries of a folder are no values).
RECURSIVE NodeCount(_)
NodeCount(v) ==
    LET cs == ChildrenOf(v)
    IN  1 + SumSeq([i \in DOMAIN cs |-> NodeCount(cs[i])])

\* The number of the leaf digests of ds that stand for a value: all but
\* the close markers and the leaves of the entries of a folder.
ValueLeaves(ds) ==
    Cardinality({i \in DOMAIN ds : ds[i].person \notin {")", "fname", "fcontent", "dir("}})

\* The number of the containers of v that write a close marker.
RECURSIVE BracketCount(_)
BracketCount(v) ==
    LET cs == ChildrenOf(v)
    IN  (IF IsContainer(v) /\ v.t # "Folder" THEN 1 ELSE 0)
        + SumSeq([i \in DOMAIN cs |-> BracketCount(cs[i])])

RECURSIVE HoldsOdictOrFolder(_)
HoldsOdictOrFolder(v) ==
    \/ v.t \in {"OrderedDict", "Folder"}
    \/ \E i \in DOMAIN ChildrenOf(v) : HoldsOdictOrFolder(ChildrenOf(v)[i])

\* C30: the options are inert where they do not apply: a call on a value
\* with no ordered mapping and no folder at any depth has the outcome the
\* same value has under every other options record, whatever the flag,
\* the ignore-list or an option no rule knows.
C30_OptionsInert ==
    Terminated /\ ~HoldsOdictOrFolder(object_to_hash) =>
        \A kw \in Kwargs : make_hash(object_to_hash, kw) = result

\* A call with an option no rule reads has hashed a container holding
\* neither ordered mapping nor folder, to the digest of the plain call.
C30_Witness ==
    /\ pc = "done"
    /\ kwargs = [some_other_option |-> TRUE]
    /\ object_to_hash.t = "dict"
    /\ Len(object_to_hash.entries) = 2
    /\ ~HoldsOdictOrFolder(object_to_hash)
    /\ make_hash(object_to_hash, NoKwargs) = result
    /\ make_hash(object_to_hash,
                 [odict_as_unordered |-> TRUE, ignored_folder_content |-> <<NameB>>]) = result

====
